---- MODULE Spec2Model ----
(***************************************************************************)
(* A model of mp3tag: the ID3 tag read/merge/write pipeline (core/tagger), *)
(* the filename parser (core/parser), the renamer (core/renamer), the      *)
(* directory scanner (core/scanner) and the GUI's tag-saving handlers      *)
(* (gui/app).                                                              *)
(*                                                                         *)
(* Strings are sequences of one-character strings, so that trimming,      *)
(* splitting and sanitising are computed character by character.  An      *)
(* Option<T> is a sequence of length 0 (None) or 1 (Some(v)).            *)
(***************************************************************************)
EXTENDS Integers, Sequences, FiniteSets, TLC

None == <<>>
Some(v) == <<v>>
IsSome(o) == o # <<>>
Unwrap(o) == o[1]
\* Option::or / Option::or_else
OrElse(a, b) == IF IsSome(a) THEN a ELSE b

(***************************************************************************)
(* models.rs: TrackInfo                                                    *)
(***************************************************************************)
TrackInfo(t, a, al, aa, tr, y, g, art, url, src) ==
    [title |-> t, artist |-> a, album |-> al, album_artist |-> aa,
     track_number |-> tr, year |-> y, genre |-> g, album_art |-> art,
     album_art_url |-> url, source |-> src]

\* TrackInfo::default(): every Option None, source the empty String
DefaultTrackInfo ==
    TrackInfo(None, None, None, None, None, None, None, None, None, "")

(***************************************************************************)
(* The tag container of a file as the id3 crate presents it.  A file has   *)
(* no container (Tag::read_from_path fails with ErrorKind::NoTag), a       *)
(* malformed one (any other error) or a container with text frames and     *)
(* picture frames.                                                         *)
(***************************************************************************)
NoTag == [kind |-> "NoTag"]
Malformed == [kind |-> "Malformed"]
TagOf(t) == [kind |-> "Tag", tag |-> t]

\* Tag::new()
NewTag ==
    [title |-> None, artist |-> None, album |-> None, album_artist |-> None,
     track |-> None, year |-> None, genre |-> None, pictures |-> <<>>]

\* Tag::read_from_path(path).unwrap_or_else(|_| Tag::new())
ReadOrNew(disk) == IF disk.kind = "Tag" THEN disk.tag ELSE NewTag

PngMagic == <<137, 80, 78, 71>>

StartsWith(data, prefix) ==
    /\ Len(data) >= Len(prefix)
    /\ \A i \in 1..Len(prefix) : data[i] = prefix[i]

detect_mime_type_AlwaysJpeg(data) == "image/jpeg"

detect_mime_type(data) ==
    IF StartsWith(data, PngMagic) THEN "image/png" ELSE "image/jpeg"

Picture(data) ==
    [mime_type |-> detect_mime_type(data), picture_type |-> "CoverFront",
     description |-> <<>>, data |-> data]

SetIfSome_Always(old, new) == new

\* one `if let Some(..) = info.f { tag.set_f(..) }` of write_tags
SetIfSome(old, new) == IF IsSome(new) THEN new ELSE old

SetPictures_KeepOld(old, art) ==
    IF IsSome(art) THEN Append(old, Picture(Unwrap(art))) ELSE old

\* tag.remove_all_pictures(); tag.add_frame(Picture {..})
SetPictures(old, art) ==
    IF IsSome(art) THEN <<Picture(Unwrap(art))>> ELSE old

\* The container write_tags hands to write_to_path
WrittenTag(disk, info) ==
    LET tag == ReadOrNew(disk) IN
    [title        |-> SetIfSome(tag.title, info.title),
     artist       |-> SetIfSome(tag.artist, info.artist),
     album        |-> SetIfSome(tag.album, info.album),
     album_artist |-> SetIfSome(tag.album_artist, info.album_artist),
     track        |-> SetIfSome(tag.track, info.track_number),
     year         |-> SetIfSome(tag.year, info.year),
     genre        |-> SetIfSome(tag.genre, info.genre),
     pictures     |-> SetPictures(tag.pictures, info.album_art)]

\* write_tags when write_to_path succeeds: the file's new container
write_tags(disk, info) == TagOf(WrittenTag(disk, info))

write_tags_result_FailOnNoTag(disk, info, io_ok) ==
    IF io_ok /\ disk.kind = "Tag"
    THEN [res |-> "ok", disk |-> write_tags(disk, info)]
    ELSE [res |-> "err", disk |-> disk]

\* what a call of write_tags returns and leaves on disk: the only `?` is on
\* tag.write_to_path, which writes the container or fails on I/O
write_tags_result(disk, info, io_ok) ==
    IF io_ok THEN [res |-> "ok", disk |-> write_tags(disk, info)]
    ELSE [res |-> "err", disk |-> disk]

\* has_any of read_tags
has_any(tag) == IsSome(tag.title) \/ IsSome(tag.artist) \/ IsSome(tag.album)

\* read_tags: "Err" | Ok(None) = <<"Ok", None>> | Ok(Some(info))
read_tags(disk) ==
    IF disk.kind = "NoTag" THEN <<"Ok", None>>
    ELSE IF disk.kind = "Malformed" THEN <<"Err">>
    ELSE IF ~has_any(disk.tag) THEN <<"Ok", None>>
    ELSE <<"Ok", Some(TrackInfo(
            disk.tag.title, disk.tag.artist, disk.tag.album,
            disk.tag.album_artist, disk.tag.track, disk.tag.year,
            disk.tag.genre,
            IF disk.tag.pictures = <<>> THEN None
            ELSE Some(disk.tag.pictures[1].data),
            None, "id3"))>>

merge_tags_ExistingWins(existing, new_info) ==
    IF IsSome(existing) THEN
        LET e == Unwrap(existing) IN
        TrackInfo(OrElse(e.title, new_info.title),
                  OrElse(e.artist, new_info.artist),
                  OrElse(e.album, new_info.album),
                  OrElse(e.album_artist, new_info.album_artist),
                  OrElse(e.track_number, new_info.track_number),
                  OrElse(e.year, new_info.year),
                  OrElse(e.genre, new_info.genre),
                  OrElse(e.album_art, new_info.album_art),
                  OrElse(e.album_art_url, new_info.album_art_url),
                  new_info.source)
    ELSE new_info

merge_tags_NoSource(existing, new_info) == [new_info EXCEPT !.source = ""]

merge_tags(existing, new_info) ==
    IF IsSome(existing) THEN
        LET e == Unwrap(existing) IN
        TrackInfo(OrElse(new_info.title, e.title),
                  OrElse(new_info.artist, e.artist),
                  OrElse(new_info.album, e.album),
                  OrElse(new_info.album_artist, e.album_artist),
                  OrElse(new_info.track_number, e.track_number),
                  OrElse(new_info.year, e.year),
                  OrElse(new_info.genre, e.genre),
                  OrElse(new_info.album_art, e.album_art),
                  OrElse(new_info.album_art_url, e.album_art_url),
                  new_info.source)
    ELSE new_info

(***************************************************************************)
(* Strings                                                                 *)
(***************************************************************************)
Digits == {"0", "1", "2", "3", "4", "5", "6", "7", "8", "9"}
is_ascii_digit(c) == c \in Digits
\* char::is_whitespace on the characters of the model's alphabets
is_whitespace(c) == c = " "

RECURSIVE trim_start(_)
trim_start(s) ==
    IF s # <<>> /\ is_whitespace(Head(s)) THEN trim_start(Tail(s)) ELSE s

RECURSIVE trim_end(_)
trim_end(s) ==
    IF s # <<>> /\ is_whitespace(s[Len(s)])
    THEN trim_end(SubSeq(s, 1, Len(s) - 1)) ELSE s

trim(s) == trim_end(trim_start(s))

Separator == <<" ", "-", " ">>
Mp3Ext == <<".", "m", "p", "3">>

\* str::find: the least 1-based index at which pat occurs in s from index i
\* on, 0 when there is none
RECURSIVE find_from(_, _, _)
find_from(s, pat, i) ==
    IF i + Len(pat) - 1 > Len(s) THEN 0
    ELSE IF SubSeq(s, i, i + Len(pat) - 1) = pat THEN i
    ELSE find_from(s, pat, i + 1)

\* stem.splitn(2, " - ").collect(): one part, or the parts around the first
\* separator
splitn2(s) ==
    LET i == find_from(s, Separator, 1) IN
    IF i = 0 THEN <<s>>
    ELSE <<SubSeq(s, 1, i - 1), SubSeq(s, i + Len(Separator), Len(s))>>

\* Path::file_stem of a path's final component: None for a path with no
\* file name; the whole name when it has no '.', or only a leading one;
\* otherwise the part before the last '.'
RECURSIVE last_dot(_)
last_dot(name) ==
    IF name = <<>> THEN 0
    ELSE IF name[Len(name)] = "." THEN Len(name)
    ELSE last_dot(SubSeq(name, 1, Len(name) - 1))

file_stem(name) ==
    IF name = <<>> THEN None
    ELSE IF last_dot(name) <= 1 THEN Some(name)
    ELSE Some(SubSeq(name, 1, last_dot(name) - 1))

\* Path::extension of a path's final component
extension(name) ==
    IF name = <<>> \/ last_dot(name) <= 1 THEN None
    ELSE Some(SubSeq(name, last_dot(name) + 1, Len(name)))

(***************************************************************************)
(* core/parser.rs                                                          *)
(***************************************************************************)
FilenameInfo(title, artist) ==
    TrackInfo(title, artist, None, None, None, None, None, None, None,
              "filename")

digit_run_OneDigit(chars, i) ==
    IF chars # <<>> /\ is_ascii_digit(chars[1]) THEN 1 ELSE 0

\* the `while i < chars.len() && chars[i].is_ascii_digit()` loop
RECURSIVE digit_run(_, _)
digit_run(chars, i) ==
    IF i < Len(chars) /\ is_ascii_digit(chars[i + 1])
    THEN digit_run(chars, i + 1) ELSE i

strip_prefix_dot(rest) ==
    IF rest # <<>> /\ Head(rest) = "." THEN Tail(rest) ELSE rest

strip_track_number_KeepDot(stem) ==
    IF Len(stem) < 2 THEN None
    ELSE LET i == digit_run(stem, 0) IN
         IF i = 0 THEN None
         ELSE LET rest == trim_start(SubSeq(stem, i + 1, Len(stem))) IN
              IF rest = <<>> THEN None ELSE Some(rest)

strip_track_number(stem) ==
    IF Len(stem) < 2 THEN None
    ELSE LET i == digit_run(stem, 0) IN
         IF i = 0 THEN None
         ELSE LET rest == trim_start(strip_prefix_dot(
                              SubSeq(stem, i + 1, Len(stem)))) IN
              IF rest = <<>> THEN None ELSE Some(rest)

try_artist_title_Swapped(stem) ==
    LET parts == splitn2(stem) IN
    IF Len(parts) # 2 THEN None
    ELSE LET artist == trim(parts[2])
             title == trim(parts[1]) IN
         IF artist = <<>> \/ title = <<>> THEN None
         ELSE Some(FilenameInfo(Some(title), Some(artist)))

try_artist_title(stem) ==
    LET parts == splitn2(stem) IN
    IF Len(parts) # 2 THEN None
    ELSE LET artist == trim(parts[1])
             title == trim(parts[2]) IN
         IF artist = <<>> \/ title = <<>> THEN None
         ELSE Some(FilenameInfo(Some(title), Some(artist)))

try_numbered_artist_title(stem) ==
    LET rest == strip_track_number(stem) IN
    IF IsSome(rest) THEN try_artist_title(Unwrap(rest)) ELSE None

try_numbered_title(stem) ==
    LET rest == strip_track_number(stem) IN
    IF ~IsSome(rest) THEN None
    ELSE LET title == trim(Unwrap(rest)) IN
         IF title = <<>> THEN None
         ELSE Some(FilenameInfo(Some(title), None))

parse_filename_PlainFirst(name) ==
    LET fs == file_stem(name) IN
    IF ~IsSome(fs) THEN FilenameInfo(None, None)
    ELSE LET stem == trim(Unwrap(fs)) IN
         IF IsSome(try_artist_title(stem))
         THEN Unwrap(try_artist_title(stem))
         ELSE IF IsSome(try_numbered_artist_title(stem))
         THEN Unwrap(try_numbered_artist_title(stem))
         ELSE IF IsSome(try_numbered_title(stem))
         THEN Unwrap(try_numbered_title(stem))
         ELSE FilenameInfo(Some(stem), None)

\* parse_filename on a path whose final component is `name`
parse_filename(name) ==
    LET fs == file_stem(name) IN
    IF ~IsSome(fs) THEN FilenameInfo(None, None)
    ELSE LET stem == trim(Unwrap(fs)) IN
         IF IsSome(try_numbered_artist_title(stem))
         THEN Unwrap(try_numbered_artist_title(stem))
         ELSE IF IsSome(try_artist_title(stem))
         THEN Unwrap(try_artist_title(stem))
         ELSE IF IsSome(try_numbered_title(stem))
         THEN Unwrap(try_numbered_title(stem))
         ELSE FilenameInfo(Some(stem), None)

build_search_query_TitleFirst(info) ==
    IF IsSome(info.artist) /\ IsSome(info.title)
    THEN Unwrap(info.title) \o <<" ">> \o Unwrap(info.artist)
    ELSE IF IsSome(info.artist) THEN Unwrap(info.artist)
    ELSE IF IsSome(info.title) THEN Unwrap(info.title)
    ELSE <<>>

\* parts.join(" ")
build_search_query(info) ==
    IF IsSome(info.artist) /\ IsSome(info.title)
    THEN Unwrap(info.artist) \o <<" ">> \o Unwrap(info.title)
    ELSE IF IsSome(info.artist) THEN Unwrap(info.artist)
    ELSE IF IsSome(info.title) THEN Unwrap(info.title)
    ELSE <<>>

(***************************************************************************)
(* core/renamer.rs                                                         *)
(***************************************************************************)
\* the NUL character '\0'
NUL == "NUL"

WindowsReserved == {"\\", ":", "*", "?", "\"", "<", ">", "|"}

\* char::is_ascii_control on the characters of the model's alphabets
is_ascii_control(c) == c \in {NUL, "\t", "\n", "\r"}

sanitize_char_NulOnly(c, os) == IF c = NUL THEN "_" ELSE c

sanitize_char_SlashOnly(c, os) == IF c = "/" THEN "_" ELSE c

sanitize_char(c, os) ==
    IF c = "/" \/ c = NUL THEN "_"
    ELSE IF os = "windows" /\ (c \in WindowsReserved \/ is_ascii_control(c))
    THEN "_"
    ELSE IF os = "macos" /\ c = ":" THEN "_"
    ELSE c

sanitize_filename(s, os) == [i \in 1..Len(s) |-> sanitize_char(s[i], os)]

build_filename_NoTrim(info, os) ==
    IF ~IsSome(info.artist) \/ ~IsSome(info.title) THEN None
    ELSE LET artist == Unwrap(info.artist)
             title == Unwrap(info.title) IN
         IF artist = <<>> \/ title = <<>> THEN None
         ELSE Some(sanitize_filename(artist, os) \o Separator
                       \o sanitize_filename(title, os) \o Mp3Ext)

build_filename(info, os) ==
    IF ~IsSome(info.artist) \/ ~IsSome(info.title) THEN None
    ELSE LET artist == trim(Unwrap(info.artist))
             title == trim(Unwrap(info.title)) IN
         IF artist = <<>> \/ title = <<>> THEN None
         ELSE Some(sanitize_filename(artist, os) \o Separator
                       \o sanitize_filename(title, os) \o Mp3Ext)

\* A path is the sequence of its components; the file system maps the paths
\* of the files that exist to their contents.
\* old_path.parent().unwrap_or_else(|| Path::new("."))
parent(path) ==
    IF path = <<>> THEN <<".">> ELSE SubSeq(path, 1, Len(path) - 1)

\* std::path::is_separator on the target
is_separator(c, os) == c = "/" \/ (os = "windows" /\ c = "\\")

\* the index of the first separator of s, Len(s) + 1 when it has none
RECURSIVE first_separator(_, _, _)
first_separator(s, i, os) ==
    IF i > Len(s) \/ is_separator(s[i], os) THEN i
    ELSE first_separator(s, i + 1, os)

\* Path::components of a name: what lies between separators, empty pieces
\* dropped
RECURSIVE components(_, _)
components(s, os) ==
    IF s = <<>> THEN <<>>
    ELSE LET k == first_separator(s, 1, os) IN
         (IF k > 1 THEN <<SubSeq(s, 1, k - 1)>> ELSE <<>>)
             \o components(SubSeq(s, k + 1, Len(s)), os)

\* a name that starts at a root ("/x", "\x" on Windows) or at a Windows
\* drive ("C:x")
is_rooted(name, os) ==
    /\ name # <<>>
    /\ \/ is_separator(name[1], os)
       \/ os = "windows" /\ Len(name) >= 2 /\ name[2] = ":"

\* dir.join(&new_name): a rooted name replaces dir, any other is appended
\* component by component
join(dir, name, os) ==
    IF is_rooted(name, os) THEN <<"/">> \o components(name, os)
    ELSE dir \o components(name, os)

\* new_path.exists()
exists(fs, path) == path \in DOMAIN fs

\* std::fs::rename(from, to): fails when `from` does not exist or on another
\* I/O error (io_ok false); otherwise moves the file, replacing what is at `to`
fs_rename(fs, from, to, io_ok) ==
    IF ~exists(fs, from) \/ ~io_ok THEN [res |-> <<"Err", "io">>, fs |-> fs]
    ELSE [res |-> <<"Ok", to>>,
          fs |-> [p \in (DOMAIN fs \ {from}) \cup {to} |->
                     IF p = to THEN fs[from] ELSE fs[p]]]

rename_file_NoCollisionCheck(fs, old_path, info, os, io_ok) ==
    LET new_name == build_filename(info, os) IN
    IF ~IsSome(new_name) THEN [res |-> <<"Err", "need artist and title">>, fs |-> fs]
    ELSE LET new_path == join(parent(old_path), Unwrap(new_name), os) IN
         IF old_path = new_path THEN [res |-> <<"Ok", new_path>>, fs |-> fs]
         ELSE fs_rename(fs, old_path, new_path, io_ok)

\* rename_file: its result and the file system it leaves
rename_file(fs, old_path, info, os, io_ok) ==
    LET new_name == build_filename(info, os) IN
    IF ~IsSome(new_name) THEN [res |-> <<"Err", "need artist and title">>, fs |-> fs]
    ELSE LET new_path == join(parent(old_path), Unwrap(new_name), os) IN
         IF old_path = new_path THEN [res |-> <<"Ok", new_path>>, fs |-> fs]
         ELSE IF exists(fs, new_path)
         THEN [res |-> <<"Err", "exists">>, fs |-> fs]
         ELSE fs_rename(fs, old_path, new_path, io_ok)

(***************************************************************************)
(* core/scanner.rs: load_mp3_file                                          *)
(***************************************************************************)
Mp3File(path, current_tags, has_tags) ==
    [path |-> path, current_tags |-> current_tags, has_tags |-> has_tags]

load_mp3_file(path, disk) ==
    LET r == read_tags(disk) IN
    IF r[1] = "Ok" /\ IsSome(r[2]) THEN Mp3File(path, r[2], TRUE)
    ELSE Mp3File(path, None, FALSE)

(***************************************************************************)
(* core/scanner.rs: scan_directory                                         *)
(*                                                                         *)
(* A directory tree maps each path that exists (a sequence of components)  *)
(* to a directory entry or to a file with its tag container.               *)
(***************************************************************************)
DirEntry == [kind |-> "dir"]
FileEntry(disk) == [kind |-> "file", disk |-> disk]

\* Path::is_dir
is_dir(tree, path) == path \in DOMAIN tree /\ tree[path].kind = "dir"

to_ascii_lowercase(c) ==
    CASE c = "M" -> "m" [] c = "P" -> "p" [] OTHER -> c

eq_ignore_ascii_case(a, b) ==
    /\ Len(a) = Len(b)
    /\ \A i \in 1..Len(a) : to_ascii_lowercase(a[i]) = to_ascii_lowercase(b[i])

is_mp3_CaseSensitive(path) ==
    LET ext == extension(path[Len(path)]) IN
    IsSome(ext) /\ Unwrap(ext) = <<"m", "p", "3">>

\* is_mp3 on a path with a file name
is_mp3(path) ==
    LET ext == extension(path[Len(path)]) IN
    IsSome(ext) /\ eq_ignore_ascii_case(Unwrap(ext), <<"m", "p", "3">>)

\* the code unit of a character, for the characters of the model's names
Code(c) ==
    CASE c = "." -> 46 [] c = "3" -> 51 [] c = "M" -> 77 [] c = "P" -> 80
      [] c = " " -> 32 [] c = "-" -> 45
      [] c = "b" -> 98 [] c = "c" -> 99 [] c = "d" -> 100 [] c = "e" -> 101
      [] c = "m" -> 109 [] c = "p" -> 112 [] c = "r" -> 114 [] c = "t" -> 116
      [] c = "x" -> 120

\* Ord on sequences, lexicographic: of code units within a component, of
\* components within a path (Path::cmp compares component by component)
RECURSIVE name_less(_, _)
name_less(a, b) ==
    IF b = <<>> THEN FALSE
    ELSE IF a = <<>> THEN TRUE
    ELSE IF Code(Head(a)) # Code(Head(b)) THEN Code(Head(a)) < Code(Head(b))
    ELSE name_less(Tail(a), Tail(b))

RECURSIVE path_less(_, _)
path_less(a, b) ==
    IF b = <<>> THEN FALSE
    ELSE IF a = <<>> THEN TRUE
    ELSE IF Head(a) # Head(b) THEN name_less(Head(a), Head(b))
    ELSE path_less(Tail(a), Tail(b))

\* files.sort_by(|a, b| a.path.cmp(&b.path))
RECURSIVE insert_sorted(_, _)
insert_sorted(sorted, f) ==
    IF sorted = <<>> THEN <<f>>
    ELSE IF path_less(f.path, Head(sorted).path) THEN <<f>> \o sorted
    ELSE <<Head(sorted)>> \o insert_sorted(Tail(sorted), f)

sort_by_path_Unsorted(fls) == fls

RECURSIVE sort_by_path(_)
sort_by_path(fls) ==
    IF fls = <<>> THEN <<>>
    ELSE insert_sorted(sort_by_path(Tail(fls)), Head(fls))

\* std::fs::read_dir(dir): the entries of dir, in the order `ord` lists their
\* names (the order is the file system's)
RECURSIVE read_dir(_, _, _)
read_dir(tree, dir, ord) ==
    IF ord = <<>> THEN <<>>
    ELSE (IF Append(dir, Head(ord)) \in DOMAIN tree
          THEN <<Append(dir, Head(ord))>> ELSE <<>>)
             \o read_dir(tree, dir, Tail(ord))

\* collect_mp3_files(dir, files): <<"Err", what failed>>, or <<"Ok", files with the
\* records found below dir appended>>.  `unreadable` are the directories
\* read_dir fails on.
RECURSIVE collect_mp3_files(_, _, _, _, _)
RECURSIVE collect_entries(_, _, _, _, _)
collect_entries(tree, entries, fls, ord, unreadable) ==
    IF entries = <<>> THEN <<"Ok", fls>>
    ELSE LET path == Head(entries)
             next == IF is_dir(tree, path)
                     THEN collect_mp3_files(tree, path, fls, ord, unreadable)
                     ELSE IF is_mp3(path)
                     THEN <<"Ok", Append(fls,
                                     load_mp3_file(path, tree[path].disk))>>
                     ELSE <<"Ok", fls>> IN
         IF next[1] = "Err" THEN next
         ELSE collect_entries(tree, Tail(entries), next[2], ord, unreadable)

collect_mp3_files(tree, dir, fls, ord, unreadable) ==
    IF ~is_dir(tree, dir) THEN <<"Err", "not a directory">>
    ELSE IF dir \in unreadable THEN <<"Err", "io">>
    ELSE collect_entries(tree, read_dir(tree, dir, ord), fls, ord, unreadable)

scan_directory(tree, dir, ord, unreadable) ==
    LET fls == collect_mp3_files(tree, dir, <<>>, ord, unreadable) IN
    IF fls[1] = "Err" THEN fls ELSE <<"Ok", sort_by_path(fls[2])>>

(***************************************************************************)
(* core/scanner.rs: load_single_file, scan_path                            *)
(***************************************************************************)
\* what Tag::read_from_path finds at an existing path: a file's container;
\* on a directory the read fails with an error other than NoTag
container_at(tree, path) ==
    IF tree[path].kind = "file" THEN tree[path].disk ELSE Malformed

load_single_file(tree, path) ==
    IF path \notin DOMAIN tree THEN <<"Err", "not found">>
    ELSE IF ~is_mp3(path) THEN <<"Err", "not mp3">>
    ELSE <<"Ok", load_mp3_file(path, container_at(tree, path))>>

scan_path(tree, path, ord, unreadable) ==
    IF is_dir(tree, path) THEN scan_directory(tree, path, ord, unreadable)
    ELSE LET r == load_single_file(tree, path) IN
         IF r[1] = "Err" THEN r ELSE <<"Ok", <<r[2]>>>>

(***************************************************************************)
(* gui/app.rs: Mp3TagApp                                                   *)
(*                                                                         *)
(* Indices (selected_index, the index of an AlbumArtDone) count from 1.    *)
(***************************************************************************)
DigitSeq == <<"0", "1", "2", "3", "4", "5", "6", "7", "8", "9">>
DigitValue(c) == CHOOSE d \in 0..9 : DigitSeq[d + 1] = c

\* u32::to_string / i32::to_string
RECURSIVE nat_to_string(_)
nat_to_string(n) ==
    IF n < 10 THEN <<DigitSeq[n + 1]>>
    ELSE nat_to_string(n \div 10) \o <<DigitSeq[(n % 10) + 1]>>

to_string(n) == IF n < 0 THEN <<"-">> \o nat_to_string(-n) ELSE nat_to_string(n)

RECURSIVE digits_value(_, _)
digits_value(s, acc) ==
    IF s = <<>> THEN acc
    ELSE digits_value(Tail(s), acc * 10 + DigitValue(Head(s)))

\* str::parse::<u32>().ok() and str::parse::<i32>().ok(): an optional sign
\* ('+' only for u32), then one or more digits.  The strings of the model
\* have fewer than ten digits, so the value always fits the type.
parse_int(s, signed) ==
    LET neg == signed /\ s # <<>> /\ Head(s) = "-"
        body == IF s # <<>> /\ (Head(s) = "+" \/ neg) THEN Tail(s) ELSE s IN
    IF body = <<>> \/ \E i \in 1..Len(body) : ~is_ascii_digit(body[i])
    THEN None
    ELSE IF neg THEN Some(-digits_value(body, 0))
    ELSE Some(digits_value(body, 0))

parse_u32(s) == parse_int(s, FALSE)
parse_i32(s) == parse_int(s, TRUE)

non_empty_NoTrim(s) == IF s = <<>> THEN None ELSE Some(s)

non_empty(s) ==
    LET trimmed == trim(s) IN
    IF trimmed = <<>> THEN None ELSE Some(trimmed)

\* Option<String>::unwrap_or_default
unwrap_or_default(o) == IF IsSome(o) THEN Unwrap(o) ELSE <<>>

\* the seven edit_* fields
EditFields(t, a, al, aa, tr, y, g) ==
    [title |-> t, artist |-> a, album |-> al, album_artist |-> aa,
     track |-> tr, year |-> y, genre |-> g]

EmptyEditFields == EditFields(<<>>, <<>>, <<>>, <<>>, <<>>, <<>>, <<>>)

\* the edit fields showing a record
FieldsOf(tags) ==
    EditFields(unwrap_or_default(tags.title), unwrap_or_default(tags.artist),
               unwrap_or_default(tags.album),
               unwrap_or_default(tags.album_artist),
               IF IsSome(tags.track_number)
               THEN to_string(Unwrap(tags.track_number)) ELSE <<>>,
               IF IsSome(tags.year) THEN to_string(Unwrap(tags.year)) ELSE <<>>,
               unwrap_or_default(tags.genre))

\* load_edit_fields: the edit fields and the search query it leaves
load_edit_fields(fls, sel, query) ==
    IF IsSome(sel) /\ Unwrap(sel) <= Len(fls)
    THEN LET file == fls[Unwrap(sel)] IN
         IF IsSome(file.current_tags)
         THEN LET tags == Unwrap(file.current_tags)
                  q == build_search_query(tags) IN
              [edit |-> FieldsOf(tags),
               search_query |-> IF q # <<>> THEN q ELSE query]
         ELSE LET parsed == parse_filename(file.path[Len(file.path)]) IN
              [edit |-> EditFields(unwrap_or_default(parsed.title),
                                   unwrap_or_default(parsed.artist),
                                   <<>>, <<>>, <<>>, <<>>, <<>>),
               search_query |-> build_search_query(parsed)]
    ELSE [edit |-> EmptyEditFields, search_query |-> <<>>]

\* the record save_current_tags builds from the edit fields
edited_info(ed, file) ==
    TrackInfo(non_empty(ed.title), non_empty(ed.artist), non_empty(ed.album),
              non_empty(ed.album_artist), parse_u32(ed.track),
              parse_i32(ed.year), non_empty(ed.genre),
              IF IsSome(file.current_tags)
              THEN Unwrap(file.current_tags).album_art ELSE None,
              None, "manual")

\* image::load_from_memory, on the art data of the model: what carries the
\* PNG signature decodes
load_from_memory(data) == IF StartsWith(data, PngMagic) THEN Some(data) ELSE None

\* messages on the channel
ScanDone(fls) == [type |-> "ScanDone", files |-> fls]
SearchDone(results) == [type |-> "SearchDone", results |-> results]
AlbumArtDone(index, data) ==
    [type |-> "AlbumArtDone", index |-> index, data |-> data]
Error == [type |-> "Error"]

\* background threads
ScanWorker == [kind |-> "scan"]
SearchWorker == [kind |-> "search"]
ArtWorker(index, track) == [kind |-> "art", index |-> index, track |-> track]

\* the fetch_result_art calls of SearchDone, in order
RECURSIVE fetch_result_arts(_, _)
fetch_result_arts(results, i) ==
    IF i > Len(results) THEN <<>>
    ELSE (IF IsSome(results[i].album_art_url)
          THEN <<ArtWorker(i, results[i])>> ELSE <<>>)
             \o fetch_result_arts(results, i + 1)

\* vec![None; results.len()]
no_textures_Empty(results) == <<>>

no_textures(results) == [i \in 1..Len(results) |-> None]

\* one iteration of the loop of process_bg_results, on the fields it touches
process_bg_result(st, msg) ==
    CASE msg.type = "ScanDone" ->
            [st EXCEPT !.files = msg.files, !.selected_index = None,
                       !.is_loading = FALSE]
      [] msg.type = "SearchDone" ->
            [st EXCEPT !.workers = @ \o fetch_result_arts(msg.results, 1),
                       !.result_art_textures = no_textures(msg.results),
                       !.search_results = msg.results,
                       !.is_loading = FALSE]
      [] msg.type = "AlbumArtDone" ->
            LET stored ==
                    IF msg.index <= Len(st.search_results)
                    THEN [st EXCEPT !.search_results[msg.index].album_art =
                                        Some(msg.data)]
                    ELSE st IN
            IF IsSome(load_from_memory(msg.data))
               /\ msg.index <= Len(st.result_art_textures)
            THEN [stored EXCEPT !.result_art_textures[msg.index] =
                                    load_from_memory(msg.data)]
            ELSE stored
      [] msg.type = "Error" -> [st EXCEPT !.is_loading = FALSE]

\* while let Ok(result) = self.rx.try_recv()
RECURSIVE process_bg_results(_, _)
process_bg_results(st, msgs) ==
    IF msgs = <<>> THEN st
    ELSE process_bg_results(process_bg_result(st, Head(msgs)), Tail(msgs))

\* s without its i-th element
RemoveAt(s, i) == SubSeq(s, 1, i - 1) \o SubSeq(s, i + 1, Len(s))

(***************************************************************************)
(* config.rs, sources/spotify.rs: credentials and the token exchange       *)
(***************************************************************************)
SpotifyConfig(client_id, client_secret) ==
    [client_id |-> client_id, client_secret |-> client_secret]

\* SpotifyConfig::is_configured
is_configured(cfg) ==
    /\ IsSome(cfg.client_id) /\ Unwrap(cfg.client_id) # <<>>
    /\ IsSome(cfg.client_secret) /\ Unwrap(cfg.client_secret) # <<>>

\* SpotifyClient::new: <<"Ok">> with a token, or <<"Err">>.  `exchange` is
\* what the token request meets: "accepted", "rejected" (error_for_status),
\* "unreachable" (send fails) or "garbled" (the response does not parse).
SpotifyClient_new(cfg, exchange) ==
    IF ~IsSome(cfg.client_id) \/ ~IsSome(cfg.client_secret) THEN <<"Err">>
    ELSE IF exchange = "accepted" THEN <<"Ok">>
    ELSE <<"Err">>

\* SpotifyClient::fetch_album_art: `download` is what the GET of the URL
\* yields, <<"Ok", bytes>> or <<"Err">>
spotify_fetch_album_art(track, download) ==
    IF ~IsSome(track.album_art_url) THEN <<"Err">> ELSE download

(***************************************************************************)
(* cli.rs: cmd_fetch                                                       *)
(***************************************************************************)
\* the start of cmd_fetch: "unconfigured" (return Ok(())), "failed" (the `?`
\* on SpotifyClient::new) or "client"
cmd_fetch_auth_Unchecked(cfg, exchange) == "client"

cmd_fetch_auth(cfg, exchange) ==
    IF ~is_configured(cfg) THEN "unconfigured"
    ELSE IF SpotifyClient_new(cfg, exchange)[1] = "Err" THEN "failed"
    ELSE "client"

\* files.into_iter().filter(|f| !f.has_tags).collect()
RECURSIVE without_tags(_)
without_tags(fls) ==
    IF fls = <<>> THEN <<>>
    ELSE (IF ~Head(fls).has_tags THEN <<Head(fls)>> ELSE <<>>)
             \o without_tags(Tail(fls))

Step(events, tree, flow) == [events |-> events, tree |-> tree, flow |-> flow]

on_search_error_Abort(events, tree) == Step(events, tree, "abort")

\* Err(e) => { println!(..); continue; } of the match on client.search
on_search_error(events, tree) == Step(events, tree, "continue")

on_art_error_Skip(chosen) == <<"skip">>

\* Err(e) => { println!(..); } of the match on client.fetch_album_art: the
\* record goes on to write_tags as it is
on_art_error(chosen) == <<"write", chosen>>

\* one iteration of `for file in &targets`: the calls it makes, the tree it
\* leaves and whether the loop goes on.  `search` is what client.search
\* returns, `selection` the index the prompt returns (0: the prompt fails,
\* one past the results: the skip entry).
cmd_fetch_file(tree, idx, file, search, selection, download, io_ok) ==
    LET query == build_search_query(parse_filename(file.path[Len(file.path)]))
        searched == <<<<"search", idx, IF search[1] = "Ok" THEN "ok" ELSE "err">>>>
    IN
    IF query = <<>> THEN Step(<<>>, tree, "continue")
    ELSE IF search[1] = "Err" THEN on_search_error(searched, tree)
    ELSE IF search[2] = <<>> THEN Step(searched, tree, "continue")
    ELSE IF selection = 0
    THEN Step(searched \o <<<<"select", idx, "err">>>>, tree, "abort")
    ELSE IF selection >= Len(search[2]) + 1
    THEN Step(searched \o <<<<"select", idx, "skip">>>>, tree, "continue")
    ELSE LET chosen == search[2][selection]
             art == spotify_fetch_album_art(chosen, download)
             after_art == IF art[1] = "Ok"
                          THEN <<"write",
                                 [chosen EXCEPT !.album_art = Some(art[2])]>>
                          ELSE on_art_error(chosen)
             picked == searched
                 \o <<<<"select", idx, "ok">>,
                      <<"art", idx, IF art[1] = "Ok" THEN "ok" ELSE "err">>>>
         IN
         IF after_art[1] = "skip" THEN Step(picked, tree, "continue")
         ELSE LET w == write_tags_result(container_at(tree, file.path),
                                         after_art[2], io_ok) IN
              Step(picked \o <<<<"write", idx, w.res>>>>,
                   [tree EXCEPT ![file.path].disk = w.disk],
                   IF w.res = "ok" THEN "continue" ELSE "abort")

(***************************************************************************)
(* sources/spotify.rs: search and convert_track.  A response of the        *)
(* catalog is what the request meets: the request cannot be sent, the      *)
(* status is no success, the body does not parse, or it parses to items.   *)
(***************************************************************************)
SpotifyImage(url, width) == [url |-> url, width |-> width]

SpotifyAlbum(name, release_date, images) ==
    [name |-> name, release_date |-> release_date, images |-> images]

SpotifyApiTrack(name, artists, album, track_number) ==
    [name |-> name, artists |-> artists, album |-> album,
     track_number |-> track_number]

\* d.split(c).next(): the part before the first c, the whole when there is
\* none
first_component(d, c) ==
    LET i == find_from(d, <<c>>, 1) IN
    IF i = 0 THEN d ELSE SubSeq(d, 1, i - 1)

parse_year_WholeDate(release_date) ==
    IF IsSome(release_date) THEN parse_i32(Unwrap(release_date)) ELSE None

parse_year(release_date) ==
    IF IsSome(release_date)
    THEN parse_i32(first_component(Unwrap(release_date), "-"))
    ELSE None

\* names.join(", ")
RECURSIVE join_names(_)
join_names(names) ==
    IF names = <<>> THEN <<>>
    ELSE IF Len(names) = 1 THEN names[1]
    ELSE names[1] \o <<",", " ">> \o join_names(Tail(names))

\* img.width.unwrap_or(0)
width_key(img) == IF IsSome(img.width) THEN Unwrap(img.width) ELSE 0

max_by_key_First(images) == IF images = <<>> THEN None ELSE Some(images[1])

\* Iterator::max_by_key: None for no element, the last of the elements with
\* the greatest key otherwise
RECURSIVE max_by_key_from(_, _)
max_by_key_from(images, best) ==
    IF images = <<>> THEN best
    ELSE IF ~IsSome(best) \/ width_key(Head(images)) >= width_key(Unwrap(best))
    THEN max_by_key_from(Tail(images), Some(Head(images)))
    ELSE max_by_key_from(Tail(images), best)

max_by_key(images) == max_by_key_from(images, None)

art_reference_Placeholder(images) ==
    IF images = <<>> THEN Some("none") ELSE Some(images[Len(images)].url)

\* images.iter().max_by_key(..).map(|img| img.url.clone())
art_reference(images) ==
    LET img == max_by_key(images) IN
    IF IsSome(img) THEN Some(Unwrap(img).url) ELSE None

convert_track(track) ==
    TrackInfo(Some(track.name),
              Some(join_names(track.artists)),
              Some(track.album.name),
              IF track.artists = <<>> THEN None ELSE Some(track.artists[1]),
              Some(track.track_number),
              parse_year(track.album.release_date),
              None,
              None,
              art_reference(track.album.images),
              "spotify")

spotify_search(response) ==
    IF response.kind # "ok" THEN <<"Err">>
    ELSE <<"Ok", [i \in 1..Len(response.items) |->
                     convert_track(response.items[i])]>>

(***************************************************************************)
(* sources/melon.rs.  A page is what the GET meets (as above) and, when it *)
(* is read, what the selectors find in it.  A URL is a sequence of pieces  *)
(* of text.                                                                *)
(***************************************************************************)
DetailPrefix == <<"https://www.melon.com/song/detail.htm?songId=">>
ResizeMarker == <<"/melon/resize/">>

\* a row of the search page: the value attribute of its first
\* input.input_check (None: no such element, Some(None): no attribute), the
\* title attribute of its first a.fc_gray, the text of the artist link and
\* of the first album link
MelonRow(input, title_link, artist_text, album_text) ==
    [input |-> input, title_link |-> title_link,
     artist_text |-> artist_text, album_text |-> album_text]

\* the record of one row, None where the loop continues
melon_row_record(row) ==
    IF ~IsSome(row.input) \/ ~IsSome(Unwrap(row.input)) THEN None
    ELSE IF ~IsSome(row.title_link) THEN None
    ELSE LET song_id == Unwrap(Unwrap(row.input))
             title == unwrap_or_default(Unwrap(row.title_link))
             artist == IF IsSome(row.artist_text)
                       THEN trim(Unwrap(row.artist_text)) ELSE <<>>
             album == IF IsSome(row.album_text)
                      THEN trim(Unwrap(row.album_text)) ELSE <<>>
         IN
         IF title = <<>> THEN None
         ELSE Some([DefaultTrackInfo EXCEPT
                       !.title = Some(title),
                       !.artist = IF artist = <<>> THEN None ELSE Some(artist),
                       !.album = IF album = <<>> THEN None ELSE Some(album),
                       !.album_art_url = Some(DetailPrefix \o song_id),
                       !.source = "melon"])

RECURSIVE melon_rows(_)
melon_rows(rows) ==
    IF rows = <<>> THEN <<>>
    ELSE melon_row_record(Head(rows)) \o melon_rows(Tail(rows))

melon_search(page) ==
    IF page.kind # "ok" THEN <<"Err">> ELSE <<"Ok", melon_rows(page.rows)>>

strip_resize_suffix(url) ==
    LET pos == find_from(url, ResizeMarker, 1) IN
    IF pos = 0 THEN url ELSE SubSeq(url, 1, pos - 1)

\* the no-break space U+00A0
NBSP == "NBSP"

\* s.replace('\u{a0}', " ").trim()
normalize(s) == trim([i \in 1..Len(s) |-> IF s[i] = NBSP THEN " " ELSE s[i]])

\* the labels of the detail page: release date, genre, album
LabelDate == <<"d", "a", "t", "e">>
LabelGenre == <<"g", "e", "n", "r", "e">>
LabelAlbum == <<"a", "l", "b", "u", "m">>

\* one (label, value) pair of dts.iter().zip(dds.iter())
apply_pair(detailed, label, value) ==
    IF label = LabelDate
    THEN LET y == parse_i32(first_component(value, ".")) IN
         IF IsSome(y) THEN [detailed EXCEPT !.year = y] ELSE detailed
    ELSE IF label = LabelGenre
    THEN IF value # <<>> THEN [detailed EXCEPT !.genre = Some(value)]
         ELSE detailed
    ELSE IF label = LabelAlbum
    THEN IF value # <<>> THEN [detailed EXCEPT !.album = Some(value)]
         ELSE detailed
    ELSE detailed

RECURSIVE apply_pairs(_, _, _)
apply_pairs(detailed, dts, dds) ==
    IF dts = <<>> \/ dds = <<>> THEN detailed
    ELSE apply_pairs(apply_pair(detailed, normalize(Head(dts)),
                                normalize(Head(dds))),
                     Tail(dts), Tail(dds))

\* if let Ok(resp) = ..send() { if let Ok(bytes) = resp.bytes() {..} }: the
\* bytes of whatever response arrived, None when the request could not be
\* sent or the body could not be read
image_bytes(got) == IF got.kind = "response" THEN got.body ELSE None

\* web: what a GET of an image URL meets
melon_fetch_detail(track, page, web) ==
    IF ~IsSome(track.album_art_url) THEN <<"Err">>
    ELSE IF page.kind # "ok" THEN <<"Err">>
    ELSE LET detailed == apply_pairs(track, page.dts, page.dds) IN
         IF IsSome(page.img) /\ IsSome(Unwrap(page.img))
         THEN LET bytes == image_bytes(
                      web[strip_resize_suffix(Unwrap(Unwrap(page.img)))]) IN
              <<"Ok", IF IsSome(bytes)
                      THEN [detailed EXCEPT !.album_art = bytes]
                      ELSE detailed>>
         ELSE <<"Ok", detailed>>

melon_fetch_album_art(track, page, web) ==
    LET detail == melon_fetch_detail(track, page, web) IN
    IF detail[1] = "Err" THEN <<"Err">>
    ELSE IF IsSome(detail[2].album_art) THEN <<"Ok", Unwrap(detail[2].album_art)>>
    ELSE <<"Err">>

\* sources/mod.rs: the default fetch_detail of MusicSource, given the result
\* of fetch_album_art
default_fetch_detail(track, art) ==
    IF art[1] = "Err" THEN <<"Err">>
    ELSE <<"Ok", [track EXCEPT !.album_art = Some(art[2])]>>

(***************************************************************************)
(* State                                                                   *)
(***************************************************************************)
VARIABLES
    tg_disk,     \* tagger: the tag container of the file on disk
    tg_info,     \* tagger: the record given by the caller
    tg_file,     \* tagger: the Mp3File loaded by cmd_edit, None before
    tg_rec,      \* tagger: the record handed to write_tags, None before
    tg_res,      \* tagger: "none" | "ok" | "err", the result of write_tags
    tg_before,   \* tagger: the container the file carried when write_tags
                 \*         was called (history)
    tg_io,       \* tagger: whether write_to_path could do its I/O in the
                 \*         last write_tags call (history)
    tg_pc,       \* tagger: the caller's position
    mg_existing, \* merge: the optional existing record
    mg_new,      \* merge: the incoming record
    mg_out,      \* merge: Some(the record merge_tags returned)
    target_os,   \* renamer: the target_os the program was built for
    bf_info,     \* renamer: the record given to build_filename
    bf_out,      \* renamer: Some(what build_filename returned)
    rn_fs,       \* renamer: the files that exist, path |-> contents
    rn_last,     \* renamer: Some(the last rename_file call: its arguments,
                 \*          the file system before it and its result)
    rn_calls,    \* renamer: the rename_file calls running side by side
    sc_tree,     \* scanner: the directory tree
    sc_root,     \* scanner: the path given to scan_directory
    sc_result,   \* scanner: None, or Some(what the call returned)
    sc_call,     \* scanner: "none", or the function called
    gui_disk,    \* GUI: the tag container of each file of the directory
    files, selected_index, edit, search_query, search_results,
    result_art_textures, is_loading,   \* GUI: fields of Mp3TagApp
    workers,     \* GUI: the background threads running, in spawning order
    channel,     \* GUI: the messages sent and not yet received
    gui_count,   \* GUI: scans and searches started, writes attempted
    gui_last,    \* GUI: None, or Some(the save or apply the last step made)
    gui_latest,  \* GUI: None, or Some(the query of the search started last)
    ft_cfg,      \* fetch: the configuration load_config returns
    ft_exchange, \* fetch: what the token request meets
    ft_tree,     \* fetch: the directory tree
    ft_path,     \* fetch: the path given to cmd_fetch
    ft_targets,  \* fetch: the files without tags, once scanned
    ft_next,     \* fetch: the index of the next target of the loop
    ft_log,      \* fetch: the calls made so far (history)
    ft_pc,       \* fetch: cmd_fetch's position
    ft_result,   \* fetch: "none", or what cmd_fetch returned
    ps_name,     \* parser: the file name of the path given
    ps_out,      \* parser: Some(the record parse_filename returned)
    ps_query     \* parser: Some(the query build_search_query returned)

VARIABLES
    src_client,     \* "none", or the catalog a search was made in
    src_results,    \* None, or Some(result of search)
    src_picked,     \* None, or the record whose art was fetched
    src_env,        \* what the requests of the last call met
    src_detail,     \* None, or Some(result of fetch_detail)
    src_art,        \* None, or Some(result of fetch_album_art)
    sn_name,        \* the argument of sanitize_filename
    sn_out,         \* None, or Some(its result)
    qy_info,        \* the argument of build_search_query
    qy_out          \* None, or Some(its result)

VARIABLES
    pv_rec,         \* None, or the record the last operation produced
    pv_prev,        \* None, or the record produced before it
    pv_by,          \* the operation that produced pv_rec
    pv_ops          \* how many operations have run

tg_vars == <<tg_disk, tg_info, tg_file, tg_rec, tg_res, tg_before, tg_io, tg_pc>>
ps_vars == <<ps_name, ps_out, ps_query>>
mg_vars == <<mg_existing, mg_new, mg_out>>
bf_vars == <<bf_info, bf_out>>
rn_vars == <<rn_fs, rn_last, rn_calls>>
sc_vars == <<sc_tree, sc_root, sc_result, sc_call>>
app_vars == <<files, selected_index, edit, search_query, search_results,
              result_art_textures, is_loading>>
gui_vars == <<gui_disk, app_vars, workers, channel, gui_count, gui_last,
              gui_latest>>
ft_vars == <<ft_cfg, ft_exchange, ft_tree, ft_path, ft_targets, ft_next,
             ft_log, ft_pc, ft_result>>
src_vars == <<src_client, src_results, src_picked, src_env, src_detail, src_art>>
sn_vars == <<sn_name, sn_out>>
qy_vars == <<qy_info, qy_out>>
pv_vars == <<pv_rec, pv_prev, pv_by, pv_ops>>
vars == <<tg_vars, mg_vars, ps_vars, target_os, bf_vars, rn_vars, sc_vars,
          gui_vars, ft_vars, src_vars, sn_vars, qy_vars, pv_vars>>

(***************************************************************************)
(* Input domains                                                           *)
(***************************************************************************)
MaxPictures == 2
MaxArtLen == 4

Opt(S) == {None} \cup {Some(v) : v \in S}

\* image data: the prefixes of a PNG header (the empty one included) and a
\* header that differs from PNG's in its fourth byte
ArtData ==
    {SubSeq(PngMagic \o <<13, 10, 26, 10>>, 1, n) : n \in 0..MaxArtLen}
        \cup {<<137, 80, 78, 70>>}

OldPicture(n) ==
    [mime_type |-> "image/jpeg", picture_type |-> "Other",
     description |-> <<"o">>, data |-> <<255, 216, n>>]

\* the containers a file may carry before the program touches it
OldTags ==
    {[title |-> t, artist |-> a, album |-> al, album_artist |-> aa,
      track |-> tr, year |-> y, genre |-> g,
      pictures |-> [i \in 1..n |-> OldPicture(i)]] :
        t \in Opt({<<>>, <<"o">>}), a \in Opt({<<"p">>}),
        al \in Opt({<<"q">>}), aa \in Opt({<<"r">>}), tr \in Opt({1}),
        y \in Opt({1999}), g \in Opt({<<"R">>}),
        n \in 0..MaxPictures}

Disks == {NoTag, Malformed} \cup {TagOf(t) : t \in OldTags}

\* the records a caller may hand to merge_tags / write_tags
Infos ==
    {TrackInfo(t, a, al, aa, tr, y, g, art, None, "manual") :
        t \in Opt({<<"T">>}), a \in Opt({<<"A">>}),
        al \in Opt({<<"L">>}), aa \in Opt({<<"B">>}), tr \in Opt({2}),
        y \in Opt({2024}), g \in Opt({<<"G">>}), art \in Opt(ArtData)}

(***************************************************************************)
(* Tagger: write_tags called directly, and cmd_edit's load / merge / write *)
(***************************************************************************)
TaggerInit ==
    /\ tg_disk \in Disks
    /\ tg_info \in Infos
    /\ tg_file = None
    /\ tg_rec = None
    /\ tg_res = "none"
    /\ tg_before = NoTag
    /\ tg_io = TRUE
    /\ tg_pc = "start"

TaggerIdle ==
    /\ tg_disk = NoTag
    /\ tg_info = DefaultTrackInfo
    /\ tg_file = None
    /\ tg_rec = None
    /\ tg_res = "none"
    /\ tg_before = NoTag
    /\ tg_io = TRUE
    /\ tg_pc = "idle"

\* write_tags(path, rec), the I/O of write_to_path succeeding or failing
WriteTagsCall(rec) ==
    /\ tg_rec' = Some(rec)
    /\ tg_before' = tg_disk
    /\ \E io_ok \in BOOLEAN :
          LET r == write_tags_result(tg_disk, rec, io_ok) IN
          /\ tg_io' = io_ok
          /\ tg_disk' = r.disk
          /\ tg_res' = r.res
    /\ tg_pc' = "written"

\* a caller that writes its record as it is (cmd_fetch, the GUI)
WriteTags ==
    /\ tg_pc = "start"
    /\ WriteTagsCall(tg_info)
    /\ UNCHANGED <<tg_info, tg_file, mg_vars, ps_vars, target_os, bf_vars, rn_vars, sc_vars, gui_vars, ft_vars, src_vars, sn_vars, qy_vars, pv_vars>>

TaggerNext == WriteTags

(***************************************************************************)
(* cmd_edit: load_single_file, then merge_tags and write_tags              *)
(***************************************************************************)
EditInit ==
    /\ tg_disk \in Disks
    /\ tg_info = DefaultTrackInfo
    /\ tg_file = None
    /\ tg_rec = None
    /\ tg_res = "none"
    /\ tg_before = NoTag
    /\ tg_io = TRUE
    /\ tg_pc = "start"

\* scanner::load_single_file(file) on an existing .mp3 path
EditLoad ==
    /\ tg_pc = "start"
    /\ tg_file' = Some(load_mp3_file(<<"f">>, tg_disk))
    /\ tg_pc' = "loaded"
    /\ UNCHANGED <<tg_disk, tg_info, tg_rec, tg_res, tg_before, tg_io, mg_vars, ps_vars, target_os, bf_vars, rn_vars, sc_vars, gui_vars, ft_vars, src_vars, sn_vars, qy_vars, pv_vars>>

\* new_info from the command line; merge_tags(&mp3.current_tags, &new_info);
\* write_tags(file, &merged)
EditMergeWrite ==
    /\ tg_pc = "loaded"
    /\ \E new_info \in Infos :
          /\ tg_info' = new_info
          /\ WriteTagsCall(merge_tags(Unwrap(tg_file).current_tags, new_info))
    /\ UNCHANGED <<tg_file, mg_vars, ps_vars, target_os, bf_vars, rn_vars, sc_vars, gui_vars, ft_vars, src_vars, sn_vars, qy_vars, pv_vars>>

EditNext == EditLoad \/ EditMergeWrite

(***************************************************************************)
(* Merge: merge_tags on an optional existing record and an incoming one    *)
(***************************************************************************)
\* records as read_tags, a catalog search or an earlier merge produce them
ExistingInfos ==
    {TrackInfo(t, a, al, aa, tr, y, g, art, url, "id3") :
        t \in Opt({<<"o">>}), a \in Opt({<<"p">>}), al \in Opt({<<"q">>}),
        aa \in Opt({<<"r">>}), tr \in Opt({1}), y \in Opt({1999}),
        g \in Opt({<<"R">>}), art \in Opt({<<255, 216>>}),
        url \in Opt({<<"u">>})}

IncomingInfos ==
    {TrackInfo(t, a, al, aa, tr, y, g, art, url, src) :
        t \in Opt({<<"T">>}), a \in Opt({<<"A">>}), al \in Opt({<<"L">>}),
        aa \in Opt({<<"B">>}), tr \in Opt({2}), y \in Opt({2024}),
        g \in Opt({<<"G">>}), art \in Opt({PngMagic}),
        url \in Opt({<<"v">>}), src \in {"spotify"}}

MergeInit ==
    /\ mg_existing \in Opt(ExistingInfos)
    /\ mg_new \in IncomingInfos
    /\ mg_out = None

MergeIdle ==
    /\ mg_existing = None
    /\ mg_new = DefaultTrackInfo
    /\ mg_out = None

MergeTags ==
    /\ mg_out = None
    /\ mg_out' = Some(merge_tags(mg_existing, mg_new))
    /\ UNCHANGED <<mg_existing, mg_new, tg_vars, ps_vars, target_os, bf_vars, rn_vars, sc_vars, gui_vars, ft_vars, src_vars, sn_vars, qy_vars, pv_vars>>

MergeNext == MergeTags

(***************************************************************************)
(* Parser: parse_filename on a path, then build_search_query on its result *)
(* (load_edit_fields, cmd_fetch)                                           *)
(***************************************************************************)
MaxStemLen == 7

StemChars == {"1", ".", " ", "-", "a"}

\* the strings of at most n characters
StringsUpTo(chars, n) == UNION {[1..k -> chars] : k \in 0..n}

\* the path with no file name, and the files "<stem>.mp3"
Names == {<<>>} \cup {s \o Mp3Ext : s \in StringsUpTo(StemChars, MaxStemLen)}

ParserInit ==
    /\ ps_name \in Names
    /\ ps_out = None
    /\ ps_query = None

ParserIdle ==
    /\ ps_name = <<>>
    /\ ps_out = None
    /\ ps_query = None

ParseFilename ==
    /\ ps_out = None
    /\ ps_out' = Some(parse_filename(ps_name))
    /\ UNCHANGED <<ps_name, ps_query, tg_vars, mg_vars, target_os, bf_vars, rn_vars, sc_vars, gui_vars, ft_vars, src_vars, sn_vars, qy_vars, pv_vars>>

BuildSearchQuery ==
    /\ ps_out # None
    /\ ps_query = None
    /\ ps_query' = Some(build_search_query(Unwrap(ps_out)))
    /\ UNCHANGED <<ps_name, ps_out, tg_vars, mg_vars, target_os, bf_vars, rn_vars, sc_vars, gui_vars, ft_vars, src_vars, sn_vars, qy_vars, pv_vars>>

ParserNext == ParseFilename \/ BuildSearchQuery

(***************************************************************************)
(* Renamer: build_filename on a record; rename_file calls on a directory   *)
(***************************************************************************)
MaxArtistLen == 3
MaxTitleLen == 2

NameChars == {"a", " ", "/", NUL, ":", "\\"}

TargetOses == {"linux", "windows", "macos"}

FilenameInfos ==
    {TrackInfo(t, a, None, None, None, None, None, None, None, "manual") :
        t \in Opt(StringsUpTo(NameChars, MaxTitleLen)),
        a \in Opt(StringsUpTo(NameChars, MaxArtistLen))}

FilenameInit ==
    /\ target_os \in TargetOses
    /\ bf_info \in FilenameInfos
    /\ bf_out = None

FilenameIdle ==
    /\ bf_info = DefaultTrackInfo
    /\ bf_out = None

BuildFilename ==
    /\ bf_out = None
    /\ bf_out' = Some(build_filename(bf_info, target_os))
    /\ UNCHANGED <<bf_info, target_os, tg_vars, mg_vars, ps_vars, rn_vars, sc_vars, gui_vars, ft_vars, src_vars, sn_vars, qy_vars, pv_vars>>

FilenameNext == BuildFilename

\* the files a directory tree may hold before the program runs, each with
\* contents of its own
FileAT == <<"a", " ", "-", " ", "t">> \o Mp3Ext
FileBT == <<"b", " ", "-", " ", "t">> \o Mp3Ext
FileX == <<"x">> \o Mp3Ext

InitialFiles ==
    [p \in {<<"d", FileAT>>, <<"d", FileBT>>, <<"d", FileX>>, <<"e", FileAT>>}
        |-> CASE p = <<"d", FileAT>> -> 1
              [] p = <<"d", FileBT>> -> 2
              [] p = <<"d", FileX>> -> 3
              [] OTHER -> 4]

Restrict(f, S) == [x \in S |-> f[x]]

\* the paths and records rename_file is called with
RenamePaths == DOMAIN InitialFiles

RenameInfos ==
    {TrackInfo(t, a, None, None, None, None, None, None, None, "manual") :
        t \in Opt({<<"t">>}),
        a \in Opt({<<"a">>, <<" ", "b">>, <<"a", "/">>})}

RenameInit ==
    /\ target_os \in TargetOses
    /\ \E S \in SUBSET (DOMAIN InitialFiles) : rn_fs = Restrict(InitialFiles, S)
    /\ rn_last = None
    /\ rn_calls = <<>>

RenameIdle ==
    /\ rn_fs = <<>>
    /\ rn_last = None
    /\ rn_calls = <<>>

RenameFile ==
    \E old_path \in RenamePaths, info \in RenameInfos, io_ok \in BOOLEAN :
        LET r == rename_file(rn_fs, old_path, info, target_os, io_ok) IN
        /\ rn_fs' = r.fs
        /\ rn_last' = Some([old_path |-> old_path, info |-> info,
                            before |-> rn_fs, res |-> r.res])
        /\ UNCHANGED <<rn_calls, target_os, bf_vars, tg_vars, mg_vars, ps_vars, sc_vars, gui_vars, ft_vars, src_vars, sn_vars, qy_vars, pv_vars>>

RenameNext == RenameFile


(***************************************************************************)
(* core/renamer.rs: rename_file called twice side by side (two runs of the *)
(* program on one directory).  A call is at "start", at "checked" (between *)
(* new_path.exists() and std::fs::rename) or "done".                       *)
(***************************************************************************)
Callers == 2

Call(old_path, info) ==
    [old_path |-> old_path, info |-> info, pc |-> "start", new_path |-> None,
     res |-> None]

Done(call, res) == [call EXCEPT !.pc = "done", !.res = Some(res)]

\* rename_file up to the collision check: bails out, returns early, or goes
\* on to the rename with the path it computed
rename_file_check(fs, call, os) ==
    LET new_name == build_filename(call.info, os) IN
    IF ~IsSome(new_name) THEN Done(call, <<"Err", "need artist and title">>)
    ELSE LET new_path == join(parent(call.old_path), Unwrap(new_name), os) IN
         IF call.old_path = new_path
         THEN Done([call EXCEPT !.new_path = Some(new_path)],
                   <<"Ok", new_path>>)
         ELSE IF exists(fs, new_path)
         THEN Done([call EXCEPT !.new_path = Some(new_path)],
                   <<"Err", "exists">>)
         ELSE [call EXCEPT !.pc = "checked", !.new_path = Some(new_path)]

RaceInit ==
    /\ target_os \in TargetOses
    /\ \E S \in SUBSET (DOMAIN InitialFiles) : rn_fs = Restrict(InitialFiles, S)
    /\ rn_last = None
    /\ rn_calls \in [1..Callers -> {Call(p, i) : p \in DOMAIN rn_fs,
                                                 i \in RenameInfos}]
    /\ \A c, e \in 1..Callers :
          c # e => rn_calls[c].old_path # rn_calls[e].old_path

\* a call runs from its start to the collision check
RenameFileCheck ==
    \E c \in DOMAIN rn_calls :
        /\ rn_calls[c].pc = "start"
        /\ rn_calls' = [rn_calls EXCEPT
                           ![c] = rename_file_check(rn_fs, @, target_os)]
        /\ UNCHANGED <<rn_fs, rn_last, target_os, bf_vars, tg_vars, mg_vars, ps_vars, sc_vars, gui_vars, ft_vars, src_vars, sn_vars, qy_vars, pv_vars>>

\* std::fs::rename(old_path, &new_path)?; Ok(new_path)
RenameFileMove ==
    \E c \in DOMAIN rn_calls, io_ok \in BOOLEAN :
        /\ rn_calls[c].pc = "checked"
        /\ LET r == fs_rename(rn_fs, rn_calls[c].old_path,
                              Unwrap(rn_calls[c].new_path), io_ok) IN
           /\ rn_fs' = r.fs
           /\ rn_calls' = [rn_calls EXCEPT ![c] = Done(@, r.res)]
        /\ UNCHANGED <<rn_last, target_os, bf_vars, tg_vars, mg_vars, ps_vars, sc_vars, gui_vars, ft_vars, src_vars, sn_vars, qy_vars, pv_vars>>

RaceNext == RenameFileCheck \/ RenameFileMove

(***************************************************************************)
(* Scanner: scan_directory on a directory tree                             *)
(***************************************************************************)
NameDMp3 == <<"d">> \o Mp3Ext
NameBMP3 == <<"b", ".", "M", "P", "3">>
NameCTxt == <<"c", ".", "t", "x", "t">>
NameDir == <<"d">>
NameDirMp3 == <<"e">> \o Mp3Ext

\* file names: two with the extension mp3 (one in capitals), one with another
\* extension and ".mp3", which has no extension
FileNames == {NameDMp3, NameBMP3, NameCTxt, Mp3Ext}

ScanRoot == <<<<"r">>>>
ScanDirs == <<ScanRoot, Append(ScanRoot, NameDir),
              Append(Append(ScanRoot, NameDir), NameDirMp3)>>

TaggedDisk == TagOf([NewTag EXCEPT !.title = Some(<<"o">>)])

\* what a directory may hold: each file name absent or present; a file with
\* the extension mp3 without or with tags
FileStates(name) ==
    IF is_mp3(<<name>>) THEN {None, Some(NoTag), Some(TaggedDisk)}
    ELSE {None, Some(NoTag)}

DirContents == {c \in [FileNames -> Opt({NoTag, TaggedDisk})] :
                   \A n \in FileNames : c[n] \in FileStates(n)}

\* the tree with directories ScanDirs[1..depth], nested, holding `contents`
TreeOf(depth, contents) ==
    LET dirs == {ScanDirs[i] : i \in 1..depth}
        slots == {Append(ScanDirs[i], n) : i \in 1..depth, n \in FileNames}
        present == {f \in slots :
                       \E i \in 1..depth :
                           /\ SubSeq(f, 1, Len(f) - 1) = ScanDirs[i]
                           /\ IsSome(contents[i][f[Len(f)]])} IN
    [p \in dirs \cup present |->
        IF p \in dirs THEN DirEntry
        ELSE LET i == CHOOSE i \in 1..depth :
                           SubSeq(p, 1, Len(p) - 1) = ScanDirs[i] IN
             FileEntry(Unwrap(contents[i][p[Len(p)]]))]

MaxFiles == 4

NumFiles(depth, contents) ==
    Cardinality({<<i, n>> \in (1..depth) \X FileNames : IsSome(contents[i][n])})

\* nested directories one to three deep, holding at most MaxFiles files
Trees ==
    UNION {{TreeOf(depth, contents) :
               contents \in {c \in [1..depth -> DirContents] :
                                NumFiles(depth, c) <= MaxFiles}} :
           depth \in 1..3}

\* the orders in which read_dir may list names
ReadDirOrders ==
    {<<NameBMP3, NameCTxt, NameDir, NameDMp3, NameDirMp3, Mp3Ext>>,
     <<Mp3Ext, NameDirMp3, NameDMp3, NameDir, NameCTxt, NameBMP3>>,
     <<NameDMp3, NameDir, Mp3Ext, NameBMP3, NameDirMp3, NameCTxt>>}

ScanInit ==
    /\ sc_tree \in Trees
    /\ sc_root \in {ScanRoot, Append(ScanRoot, NameDir),
                    Append(ScanRoot, NameDMp3)}
    /\ sc_result = None
    /\ sc_call = "none"

ScanIdle ==
    /\ sc_tree = <<>>
    /\ sc_root = <<>>
    /\ sc_result = None
    /\ sc_call = "none"

ScanDirectory ==
    /\ sc_result = None
    /\ \E ord \in ReadDirOrders,
          unreadable \in {{}} \cup {{ScanDirs[i]} : i \in 1..3} :
          sc_result' = Some(scan_directory(sc_tree, sc_root, ord, unreadable))
    /\ sc_call' = "scan_directory"
    /\ UNCHANGED <<sc_tree, sc_root, target_os, bf_vars, rn_vars, tg_vars,
                   mg_vars, ps_vars, gui_vars, ft_vars, src_vars, sn_vars, qy_vars, pv_vars>>

ScanNext == ScanDirectory

(***************************************************************************)
(* Loader: scan_directory, load_single_file and scan_path on one directory *)
(* whose files may carry a malformed container                             *)
(***************************************************************************)
LoadNames == {NameDMp3, NameBMP3, NameCTxt}
LoadDirPath == Append(ScanRoot, NameDirMp3)

\* the root with each file absent, untagged, malformed or tagged, and with
\* or without an empty directory named like an mp3 file
LoadTrees ==
    {[p \in {ScanRoot} \cup (IF with_dir THEN {LoadDirPath} ELSE {})
              \cup {Append(ScanRoot, n) : n \in {m \in LoadNames : IsSome(c[m])}}
        |-> IF p \in {ScanRoot, LoadDirPath} THEN DirEntry
            ELSE FileEntry(Unwrap(c[p[Len(p)]]))] :
        c \in [LoadNames -> Opt({NoTag, Malformed, TaggedDisk})],
        with_dir \in BOOLEAN}

LoadPaths == {ScanRoot, LoadDirPath} \cup {Append(ScanRoot, n) : n \in LoadNames}

LoadInit ==
    /\ sc_tree \in LoadTrees
    /\ sc_root \in LoadPaths
    /\ sc_result = None
    /\ sc_call = "none"

LoadOrders == {<<NameBMP3, NameCTxt, NameDMp3, NameDirMp3>>,
               <<NameDirMp3, NameDMp3, NameCTxt, NameBMP3>>}

LoadFrame ==
    UNCHANGED <<sc_tree, sc_root, target_os, bf_vars, rn_vars, tg_vars,
                mg_vars, ps_vars, gui_vars, ft_vars, src_vars, sn_vars, qy_vars, pv_vars>>

LoadScanDirectory ==
    /\ sc_call = "none"
    /\ \E ord \in LoadOrders, unreadable \in {{}, {ScanRoot}} :
          sc_result' = Some(scan_directory(sc_tree, sc_root, ord, unreadable))
    /\ sc_call' = "scan_directory"
    /\ LoadFrame

LoadSingleFile ==
    /\ sc_call = "none"
    /\ sc_result' = Some(load_single_file(sc_tree, sc_root))
    /\ sc_call' = "load_single_file"
    /\ LoadFrame

ScanPath ==
    /\ sc_call = "none"
    /\ \E ord \in LoadOrders, unreadable \in {{}, {ScanRoot}} :
          sc_result' = Some(scan_path(sc_tree, sc_root, ord, unreadable))
    /\ sc_call' = "scan_path"
    /\ LoadFrame

LoadNext == LoadScanDirectory \/ LoadSingleFile \/ ScanPath

(***************************************************************************)
(* GUI: Mp3TagApp with its background threads, over a directory of two     *)
(* files                                                                   *)
(***************************************************************************)
MaxScans == 1
MaxSearches == 1
MaxWrites == 2

NameBC == <<"b", " ", "-", " ", "c">> \o Mp3Ext
GuiPathBC == Append(ScanRoot, NameBC)
GuiPathD == Append(ScanRoot, NameDMp3)

FullOldTag ==
    [title |-> Some(<<"o">>), artist |-> Some(<<"p">>),
     album |-> Some(<<"q">>), album_artist |-> Some(<<"r">>),
     track |-> Some(1), year |-> Some(1999), genre |-> Some(<<"R">>),
     pictures |-> <<OldPicture(1)>>]

\* the directory before the program touches it: one file without tags or
\* with every frame, one with a title and a genre only
GuiDisks ==
    {(GuiPathBC :> d) @@
     (GuiPathD :> TagOf([NewTag EXCEPT !.title = Some(<<"o">>),
                                       !.genre = Some(<<"R">>)])) :
        d \in {NoTag, TagOf(FullOldTag)}}

GuiTree(disk) ==
    [p \in {ScanRoot} \cup DOMAIN disk |->
        IF p = ScanRoot THEN DirEntry ELSE FileEntry(disk[p])]

GuiReadDirOrders == {<<NameBC, NameDMp3>>, <<NameDMp3, NameBC>>}

\* what convert_track yields: title, artist, album and track number always,
\* album artist, year and art URL when Spotify has them, never a genre
SpotifyTrack(aa, y, url) ==
    TrackInfo(Some(<<"S">>), Some(<<"X">>), Some(<<"M">>), aa, Some(3), y,
              None, None, url, "spotify")

SearchOutcomes ==
    {<<>>,
     <<SpotifyTrack(Some(<<"X">>), Some(2020), Some("u1"))>>,
     <<SpotifyTrack(None, None, None),
       SpotifyTrack(Some(<<"X">>), Some(2020), Some("u1"))>>}

\* what an album art download may deliver
FetchedArt == {PngMagic \o <<1>>, <<0>>}

\* what the user may leave in the form: nothing, a form with blanks around
\* the title, a track number with a leading zero and a year that is no
\* number, or the form as it is with album and genre cleared
TypedForms(ed) ==
    {EmptyEditFields,
     EditFields(<<" ", "T">>, <<"A">>, <<>>, <<" ">>, <<"0", "7">>, <<"x">>,
                <<"G">>),
     [ed EXCEPT !.album = <<>>, !.genre = <<>>]}

Count(scans, searches, writes) ==
    [scans |-> scans, searches |-> searches, writes |-> writes]

GuiInit ==
    /\ gui_disk \in GuiDisks
    /\ files = <<>>
    /\ selected_index = None
    /\ edit = EmptyEditFields
    /\ search_query = <<>>
    /\ search_results = <<>>
    /\ result_art_textures = <<>>
    /\ channel = <<>>
    /\ gui_last = None
    /\ gui_latest = None
    \* Mp3TagApp::new: start_scan when a directory was given
    /\ \E directory \in BOOLEAN :
           /\ is_loading = directory
           /\ workers = IF directory THEN <<ScanWorker>> ELSE <<>>
           /\ gui_count = Count(IF directory THEN 1 ELSE 0, 0, 0)

GuiIdle ==
    /\ gui_disk = <<>>
    /\ files = <<>>
    /\ selected_index = None
    /\ edit = EmptyEditFields
    /\ search_query = <<>>
    /\ search_results = <<>>
    /\ result_art_textures = <<>>
    /\ is_loading = FALSE
    /\ workers = <<>>
    /\ channel = <<>>
    /\ gui_count = Count(0, 0, 0)
    /\ gui_last = None
    /\ gui_latest = None

not_gui_vars ==
    <<tg_vars, mg_vars, ps_vars, target_os, bf_vars, rn_vars, sc_vars, ft_vars, src_vars, sn_vars, qy_vars, pv_vars>>

other_vars == <<not_gui_vars, gui_latest>>

\* start_scan (the scan button)
StartScan ==
    /\ gui_count.scans < MaxScans
    /\ is_loading' = TRUE
    /\ workers' = Append(workers, ScanWorker)
    /\ gui_count' = [gui_count EXCEPT !.scans = @ + 1]
    /\ gui_last' = None
    /\ UNCHANGED <<gui_disk, files, selected_index, edit, search_query,
                   search_results, result_art_textures, channel, other_vars>>

\* start_search (the search button, shown while a file is selected)
StartSearch ==
    /\ IsSome(selected_index)
    /\ gui_count.searches < MaxSearches
    /\ is_loading' = TRUE
    /\ workers' = Append(workers, SearchWorker)
    /\ gui_count' = [gui_count EXCEPT !.searches = @ + 1]
    /\ gui_last' = None
    /\ UNCHANGED <<gui_disk, files, selected_index, edit, search_query,
                   search_results, result_art_textures, channel, other_vars>>

\* the thread of start_scan
RunScanWorker ==
    \E i \in DOMAIN workers :
        /\ workers[i].kind = "scan"
        /\ \E ord \in GuiReadDirOrders, unreadable \in {{}, {ScanRoot}} :
              LET r == scan_directory(GuiTree(gui_disk), ScanRoot, ord,
                                      unreadable) IN
              channel' = Append(channel,
                                IF r[1] = "Ok" THEN ScanDone(r[2]) ELSE Error)
        /\ workers' = RemoveAt(workers, i)
        /\ gui_last' = None
        /\ UNCHANGED <<gui_disk, app_vars, gui_count, other_vars>>

\* the thread of start_search
RunSearchWorker ==
    \E i \in DOMAIN workers :
        /\ workers[i].kind = "search"
        /\ \E msg \in {Error} \cup {SearchDone(r) : r \in SearchOutcomes} :
              channel' = Append(channel, msg)
        /\ workers' = RemoveAt(workers, i)
        /\ gui_last' = None
        /\ UNCHANGED <<gui_disk, app_vars, gui_count, other_vars>>

\* the thread of fetch_result_art
RunArtWorker ==
    \E i \in DOMAIN workers :
        /\ workers[i].kind = "art"
        /\ \E msg \in {Error} \cup {AlbumArtDone(workers[i].index, d) :
                                       d \in FetchedArt} :
              channel' = Append(channel, msg)
        /\ workers' = RemoveAt(workers, i)
        /\ gui_last' = None
        /\ UNCHANGED <<gui_disk, app_vars, gui_count, other_vars>>

\* process_bg_results at the start of a frame, with messages waiting
ProcessBgResults ==
    /\ channel # <<>>
    /\ LET st == process_bg_results(
                     [files |-> files, selected_index |-> selected_index,
                      is_loading |-> is_loading,
                      search_results |-> search_results,
                      result_art_textures |-> result_art_textures,
                      workers |-> workers], channel) IN
       /\ files' = st.files
       /\ selected_index' = st.selected_index
       /\ is_loading' = st.is_loading
       /\ search_results' = st.search_results
       /\ result_art_textures' = st.result_art_textures
       /\ workers' = st.workers
    /\ channel' = <<>>
    /\ gui_last' = None
    /\ UNCHANGED <<gui_disk, edit, search_query, gui_count, other_vars>>

\* a click on a file of the list
SelectFile ==
    \E idx \in 1..Len(files) :
        LET loaded == load_edit_fields(files, Some(idx), search_query) IN
        /\ selected_index' = Some(idx)
        /\ edit' = loaded.edit
        /\ search_query' = loaded.search_query
        /\ search_results' = <<>>
        /\ result_art_textures' = <<>>
        /\ gui_last' = None
        /\ UNCHANGED <<gui_disk, files, is_loading, workers, channel,
                       gui_count, other_vars>>

\* typing into the edit fields (shown while a file is selected)
TypeEditFields ==
    /\ IsSome(selected_index)
    /\ \E form \in TypedForms(edit) :
          /\ form # edit
          /\ edit' = form
    /\ gui_last' = None
    /\ UNCHANGED <<gui_disk, files, selected_index, search_query,
                   search_results, result_art_textures, is_loading, workers,
                   channel, gui_count, other_vars>>

\* what write_tags and the match on its result do to the selected file
WriteSelected(op, idx, info) ==
    /\ \E io_ok \in BOOLEAN :
          /\ gui_last' = Some([op |-> op, index |-> idx, ok |-> io_ok])
          /\ IF io_ok
             THEN /\ gui_disk' = [gui_disk EXCEPT
                                     ![files[idx].path] = write_tags(@, info)]
                  /\ files' = [files EXCEPT ![idx].current_tags = Some(info),
                                            ![idx].has_tags = TRUE]
             ELSE UNCHANGED <<gui_disk, files>>
    /\ gui_count' = [gui_count EXCEPT !.writes = @ + 1]

\* save_current_tags (the save button, shown while a file is selected)
SaveCurrentTags ==
    /\ IsSome(selected_index)
    /\ Unwrap(selected_index) <= Len(files)
    /\ gui_count.writes < MaxWrites
    /\ WriteSelected("save", Unwrap(selected_index),
                     edited_info(edit, files[Unwrap(selected_index)]))
    /\ UNCHANGED <<selected_index, edit, search_query, search_results,
                   result_art_textures, is_loading, workers, channel,
                   other_vars>>

\* apply_search_result (the apply button of a search result)
ApplySearchResult ==
    /\ IsSome(selected_index)
    /\ Unwrap(selected_index) <= Len(files)
    /\ gui_count.writes < MaxWrites
    /\ \E result_idx \in 1..Len(search_results) :
          /\ edit' = FieldsOf(search_results[result_idx])
          /\ WriteSelected("apply", Unwrap(selected_index),
                           search_results[result_idx])
    /\ UNCHANGED <<selected_index, search_query, search_results,
                   result_art_textures, is_loading, workers, channel,
                   other_vars>>

GuiNext ==
    \/ StartScan
    \/ StartSearch
    \/ RunScanWorker
    \/ RunSearchWorker
    \/ RunArtWorker
    \/ ProcessBgResults
    \/ SelectFile
    \/ TypeEditFields
    \/ SaveCurrentTags
    \/ ApplySearchResult


(***************************************************************************)
(* gui/app.rs: the background threads, with searches that overlap.  The    *)
(* file list is the one an earlier scan left.  A search thread holds the   *)
(* query it was started with, the catalogue answers a query with the same  *)
(* tracks each time, and a URL serves the same picture each time.          *)
(***************************************************************************)
MaxOverlap == 2

\* BgResult::Error(format!("... : {}", e)): the text names what failed
ErrorOf(what) == [type |-> "Error", what |-> what]

\* the thread of start_search, with the query it cloned; nth tells the
\* searches of a behaviour apart
SearchThreadOf(query, nth) == [kind |-> "search", query |-> query, nth |-> nth]

\* the search started last: its query and, once its thread has ended,
\* whether it sent SearchDone
Latest(query, sent) == [query |-> query, sent |-> sent]

CatalogTrack(title, url) ==
    TrackInfo(Some(title), Some(<<"X">>), Some(<<"M">>), None, Some(3), None,
              None, None, url, "spotify")

\* what Spotify answers to a query
Catalog(query) ==
    IF query = <<"o">>
    THEN <<CatalogTrack(<<"S">>, Some("u2")), CatalogTrack(<<"T">>, None)>>
    ELSE <<CatalogTrack(<<"U">>, Some("u1"))>>

\* the picture a URL serves
ArtAt(url) == IF url = "u1" THEN PngMagic \o <<1>> ELSE PngMagic \o <<2>>

\* what the thread of start_scan sends
scan_thread(r) == <<IF r[1] = "Ok" THEN ScanDone(r[2]) ELSE ErrorOf("scan")>>

\* what the thread of start_search sends: `ok` is whether SpotifyClient::new
\* and client.search both returned Ok
search_thread_Retry(query, ok) ==
    IF ok THEN <<SearchDone(Catalog(query))>>
    ELSE <<ErrorOf("search"), SearchDone(Catalog(query))>>

search_thread(query, ok) ==
    <<IF ok THEN SearchDone(Catalog(query)) ELSE ErrorOf("search")>>

\* what the thread of fetch_result_art sends
art_thread(index, track, ok) ==
    <<IF ok /\ IsSome(track.album_art_url)
      THEN AlbumArtDone(index, ArtAt(Unwrap(track.album_art_url)))
      ELSE ErrorOf("album art")>>

OverlapInit ==
    /\ gui_disk \in GuiDisks
    /\ \E ord \in GuiReadDirOrders :
          files = scan_directory(GuiTree(gui_disk), ScanRoot, ord, {})[2]
    /\ selected_index = None
    /\ edit = EmptyEditFields
    /\ search_query = <<>>
    /\ search_results = <<>>
    /\ result_art_textures = <<>>
    /\ is_loading = FALSE
    /\ workers = <<>>
    /\ channel = <<>>
    /\ gui_count = Count(0, 0, 0)
    /\ gui_last = None
    /\ gui_latest = None

\* start_search (the search button, shown while a file is selected)
StartSearchOf ==
    /\ IsSome(selected_index)
    /\ gui_count.searches < MaxOverlap
    /\ is_loading' = TRUE
    /\ workers' = Append(workers,
                         SearchThreadOf(search_query, gui_count.searches + 1))
    /\ gui_count' = [gui_count EXCEPT !.searches = @ + 1]
    /\ gui_last' = None
    /\ gui_latest' = Some(Latest(search_query, None))
    /\ UNCHANGED <<gui_disk, files, selected_index, edit, search_query,
                   search_results, result_art_textures, channel,
                   not_gui_vars>>

\* the thread of start_scan runs to its end
ScanThread ==
    \E i \in DOMAIN workers :
        /\ workers[i].kind = "scan"
        /\ \E ord \in GuiReadDirOrders, unreadable \in {{}, {ScanRoot}} :
              channel' = channel \o
                  scan_thread(scan_directory(GuiTree(gui_disk), ScanRoot, ord,
                                             unreadable))
        /\ workers' = RemoveAt(workers, i)
        /\ gui_last' = None
        /\ UNCHANGED <<gui_disk, app_vars, gui_count, other_vars>>

\* the thread of start_search runs to its end
SearchThread ==
    \E i \in DOMAIN workers :
        /\ workers[i].kind = "search"
        /\ \E ok \in BOOLEAN :
              /\ channel' = channel \o search_thread(workers[i].query, ok)
              /\ gui_latest' = IF workers[i].nth = gui_count.searches
                               THEN Some(Latest(workers[i].query, Some(ok)))
                               ELSE gui_latest
        /\ workers' = RemoveAt(workers, i)
        /\ gui_last' = None
        /\ UNCHANGED <<gui_disk, app_vars, gui_count, not_gui_vars>>

\* the thread of fetch_result_art runs to its end
ArtThread ==
    \E i \in DOMAIN workers :
        /\ workers[i].kind = "art"
        /\ \E ok \in BOOLEAN :
              channel' = channel \o
                  art_thread(workers[i].index, workers[i].track, ok)
        /\ workers' = RemoveAt(workers, i)
        /\ gui_last' = None
        /\ UNCHANGED <<gui_disk, app_vars, gui_count, other_vars>>

OverlapNext ==
    \/ StartScan
    \/ StartSearchOf
    \/ ScanThread
    \/ SearchThread
    \/ ArtThread
    \/ ProcessBgResults
    \/ SelectFile

(***************************************************************************)
(* Fetch: cmd_fetch on a directory of up to three files                    *)
(***************************************************************************)
FetchNames == {NameBC, NameDMp3, NameBMP3}

FetchTrees ==
    {[p \in {ScanRoot}
              \cup {Append(ScanRoot, n) : n \in {m \in FetchNames : IsSome(c[m])}}
        |-> IF p = ScanRoot THEN DirEntry
            ELSE FileEntry(Unwrap(c[p[Len(p)]]))] :
        c \in [FetchNames -> Opt({NoTag, TaggedDisk})]}

FetchPaths == {ScanRoot, Append(ScanRoot, NameBC), Append(ScanRoot, NameCTxt)}

FetchConfigs ==
    {SpotifyConfig(id, secret) :
        id \in Opt({<<>>, <<"i">>}), secret \in Opt({<<"s">>})}

Exchanges == {"accepted", "rejected", "unreachable", "garbled"}

FetchOrders == {<<NameBC, NameBMP3, NameDMp3>>, <<NameDMp3, NameBMP3, NameBC>>}

FetchInit ==
    /\ ft_cfg \in FetchConfigs
    /\ ft_exchange \in Exchanges
    /\ ft_tree \in FetchTrees
    /\ ft_path \in FetchPaths
    /\ ft_targets = <<>>
    /\ ft_next = 1
    /\ ft_log = <<>>
    /\ ft_pc = "start"
    /\ ft_result = "none"

FetchIdle ==
    /\ ft_cfg = SpotifyConfig(None, None)
    /\ ft_exchange = "accepted"
    /\ ft_tree = <<>>
    /\ ft_path = <<>>
    /\ ft_targets = <<>>
    /\ ft_next = 1
    /\ ft_log = <<>>
    /\ ft_pc = "idle"
    /\ ft_result = "none"

not_ft_vars ==
    <<tg_vars, mg_vars, ps_vars, target_os, bf_vars, rn_vars, sc_vars, gui_vars,
      src_vars, sn_vars, qy_vars, pv_vars>>

\* load_config, is_configured, SpotifyClient::new
FetchAuth ==
    /\ ft_pc = "start"
    /\ LET a == cmd_fetch_auth(ft_cfg, ft_exchange) IN
       /\ ft_pc' = IF a = "client" THEN "authed" ELSE "done"
       /\ ft_result' = CASE a = "unconfigured" -> "Ok"
                         [] a = "failed" -> "Err"
                         [] OTHER -> "none"
       /\ ft_log' = IF a = "unconfigured" THEN ft_log
                    ELSE Append(ft_log, <<"auth", a>>)
    /\ UNCHANGED <<ft_cfg, ft_exchange, ft_tree, ft_path, ft_targets, ft_next,
                   not_ft_vars, src_vars, sn_vars, qy_vars, pv_vars>>

\* scanner::scan_path(path)?, the filter and the return when nothing is left
FetchScan ==
    /\ ft_pc = "authed"
    /\ \E ord \in FetchOrders, unreadable \in {{}, {ScanRoot}} :
          LET r == scan_path(ft_tree, ft_path, ord, unreadable) IN
          /\ ft_log' = Append(ft_log, <<"scan", r[1]>>)
          /\ ft_targets' = IF r[1] = "Ok" THEN without_tags(r[2]) ELSE <<>>
          /\ ft_result' = IF r[1] = "Err" THEN "Err"
                          ELSE IF without_tags(r[2]) = <<>> THEN "Ok"
                          ELSE "none"
          /\ ft_pc' = IF r[1] = "Ok" /\ without_tags(r[2]) # <<>>
                      THEN "loop" ELSE "done"
    /\ UNCHANGED <<ft_cfg, ft_exchange, ft_tree, ft_path, ft_next, not_ft_vars, src_vars, sn_vars, qy_vars, pv_vars>>

\* one iteration of the loop, and the return after the last
FetchFile ==
    /\ ft_pc = "loop"
    /\ \E search \in {<<"Err">>} \cup {<<"Ok", r>> : r \in SearchOutcomes},
          selection \in 0..3,
          download \in {<<"Err">>} \cup {<<"Ok", d>> : d \in FetchedArt},
          io_ok \in BOOLEAN :
          LET st == cmd_fetch_file(ft_tree, ft_next, ft_targets[ft_next],
                                   search, selection, download, io_ok) IN
          /\ ft_log' = ft_log \o st.events
          /\ ft_tree' = st.tree
          /\ ft_next' = ft_next + 1
          /\ ft_pc' = IF st.flow = "abort" \/ ft_next = Len(ft_targets)
                      THEN "done" ELSE "loop"
          /\ ft_result' = IF st.flow = "abort" THEN "Err"
                          ELSE IF ft_next = Len(ft_targets) THEN "Ok"
                          ELSE "none"
    /\ UNCHANGED <<ft_cfg, ft_exchange, ft_path, ft_targets, not_ft_vars, src_vars, sn_vars, qy_vars, pv_vars>>

FetchNext == FetchAuth \/ FetchScan \/ FetchFile

(***************************************************************************)
(* Sources: a search in one catalog, then the art of one of its records    *)
(***************************************************************************)
ArtistLists ==
    {<<>>, <<<<"A">>>>, <<<<"A">>, <<"B">>>>, <<<<"B">>, <<"A">>, <<"C">>>>}

ReleaseDates ==
    {None,
     Some(<<"2", "0", "1", "9", "-", "1", "1", "-", "1", "8">>),
     Some(<<"2", "0", "1", "9">>),
     Some(<<>>),
     Some(<<"-", "5">>),
     Some(<<"+", "7", "-", "1">>),
     Some(<<"x", "9">>)}

ImageLists ==
    {<<>>,
     <<SpotifyImage("u1", Some(640))>>,
     <<SpotifyImage("u1", Some(64)), SpotifyImage("u2", Some(640)),
       SpotifyImage("u3", Some(300))>>,
     <<SpotifyImage("u1", Some(640)), SpotifyImage("u2", Some(640))>>,
     <<SpotifyImage("u1", None), SpotifyImage("u2", None)>>,
     <<SpotifyImage("u1", Some(64)), SpotifyImage("u2", None)>>}

ApiTracks ==
    {SpotifyApiTrack(<<"S">>, artists, SpotifyAlbum(<<"M">>, date, images), 3) :
        artists \in ArtistLists, date \in ReleaseDates, images \in ImageLists}

PlainApiTrack ==
    SpotifyApiTrack(<<"P">>, <<<<"A">>>>,
                    SpotifyAlbum(<<"M">>, None,
                                 <<SpotifyImage("u9", Some(300))>>), 1)

FailedRequests ==
    {[kind |-> "unreachable"], [kind |-> "status"], [kind |-> "unreadable"]}

SpotifyResponses ==
    FailedRequests
    \cup {[kind |-> "ok", items |-> items] :
            items \in {<<>>} \cup {<<t>> : t \in ApiTracks}
                             \cup {<<t, PlainApiTrack>> : t \in ApiTracks}}

MelonRows ==
    {MelonRow(input, title_link, artist_text, album_text) :
        input \in {None, Some(None), Some(Some(<<"7">>)), Some(Some(<<>>))},
        title_link \in {None, Some(None), Some(Some(<<"T">>)), Some(Some(<<>>))},
        artist_text \in {None, Some(<<" ", "A", " ">>), Some(<<" ">>)},
        album_text \in {None, Some(<<"M">>), Some(<<>>)}}

FullRow == MelonRow(Some(Some(<<"8">>)), Some(Some(<<"U">>)), Some(<<"B">>), None)

MelonPages ==
    FailedRequests
    \cup {[kind |-> "ok", rows |-> rows] :
            rows \in {<<>>} \cup {<<r>> : r \in MelonRows}
                            \cup {<<r, FullRow>> : r \in MelonRows}}

UrlOriginal == <<"i">>
UrlResized == UrlOriginal \o ResizeMarker \o <<"2", "8", "2">>

DetailLists ==
    {[dts |-> <<LabelDate, LabelGenre, LabelAlbum>>,
      dds |-> <<<<"2", "0", "0", "7", ".", "0", "5">>, <<"G">>, <<"N">>>>],
     [dts |-> <<LabelDate, LabelGenre>>, dds |-> <<<<"x">>, <<>>>>],
     [dts |-> <<<<"o">>, LabelAlbum>>, dds |-> <<<<"v">>>>],
     [dts |-> <<<<NBSP>> \o LabelDate>>, dds |-> <<<<" ", "1", "9">>>>]}

DetailPages ==
    FailedRequests
    \cup {[kind |-> "ok", dts |-> l.dts, dds |-> l.dds, img |-> img] :
            l \in DetailLists,
            img \in {None, Some(None), Some(Some(UrlOriginal)),
                     Some(Some(UrlResized))}}

ImageOutcomes ==
    {[kind |-> "unreachable"]}
    \cup {[kind |-> "response", status |-> st, body |-> b] :
            st \in {200, 404}, b \in {None, Some(<<0>>), Some(PngMagic \o <<1>>)}}

\* the resized image is always there; the original is what the model varies
Webs ==
    {[u \in {UrlOriginal, UrlResized} |->
        IF u = UrlOriginal THEN got
        ELSE [kind |-> "response", status |-> 200, body |-> Some(<<9>>)]] :
        got \in ImageOutcomes}

SourcesInit ==
    /\ src_client = "none"
    /\ src_results = None
    /\ src_picked = None
    /\ src_env = [kind |-> "none"]
    /\ src_detail = None
    /\ src_art = None

SourcesIdle ==
    /\ src_client = "idle"
    /\ src_results = None
    /\ src_picked = None
    /\ src_env = [kind |-> "none"]
    /\ src_detail = None
    /\ src_art = None

not_src_vars ==
    <<tg_vars, mg_vars, ps_vars, target_os, bf_vars, rn_vars, sc_vars, gui_vars,
      ft_vars, sn_vars, qy_vars, pv_vars>>

Searched(client) ==
    /\ src_client = client
    /\ src_picked = None
    /\ Unwrap(src_results)[1] = "Ok"

\* SpotifyClient::search
SpotifySearch ==
    /\ src_client = "none"
    /\ \E response \in SpotifyResponses :
          /\ src_client' = "spotify"
          /\ src_env' = response
          /\ src_results' = Some(spotify_search(response))
    /\ UNCHANGED <<src_picked, src_detail, src_art, not_src_vars>>

\* MelonClient::search
MelonSearch ==
    /\ src_client = "none"
    /\ \E page \in MelonPages :
          /\ src_client' = "melon"
          /\ src_env' = page
          /\ src_results' = Some(melon_search(page))
    /\ UNCHANGED <<src_picked, src_detail, src_art, not_src_vars>>

\* SpotifyClient::fetch_album_art and the default fetch_detail on a record
\* of the search
SpotifyFetch ==
    /\ Searched("spotify")
    /\ \E i \in DOMAIN Unwrap(src_results)[2],
          download \in {<<"Err">>} \cup {<<"Ok", d>> : d \in FetchedArt} :
          LET track == Unwrap(src_results)[2][i]
              art == spotify_fetch_album_art(track, download) IN
          /\ src_picked' = Some(track)
          /\ src_env' = [kind |-> "download", download |-> download]
          /\ src_art' = Some(art)
          /\ src_detail' = Some(default_fetch_detail(track, art))
    /\ UNCHANGED <<src_client, src_results, not_src_vars>>

\* MelonClient::fetch_detail and MelonClient::fetch_album_art on a record of
\* the search
MelonFetch ==
    /\ Searched("melon")
    /\ \E i \in DOMAIN Unwrap(src_results)[2],
          page \in DetailPages, web \in Webs :
          LET track == Unwrap(src_results)[2][i] IN
          /\ src_picked' = Some(track)
          /\ src_env' = [kind |-> "detail", page |-> page, web |-> web]
          /\ src_detail' = Some(melon_fetch_detail(track, page, web))
          /\ src_art' = Some(melon_fetch_album_art(track, page, web))
    /\ UNCHANGED <<src_client, src_results, not_src_vars>>

SourcesNext == SpotifySearch \/ MelonSearch \/ SpotifyFetch \/ MelonFetch

(***************************************************************************)
(* Sanitize: sanitize_filename on short names, on each target              *)
(***************************************************************************)
MaxNameLen == 3

\* a syllable of Hangul, standing for every character outside ASCII
Hangul == "HANGUL"

SanitizeChars == {"a", " ", "/", NUL, ":", "\\", "\t", Hangul}

SanitizeInit ==
    /\ target_os \in TargetOses
    /\ sn_name \in StringsUpTo(SanitizeChars, MaxNameLen)
    /\ sn_out = None

SanitizeIdle ==
    /\ sn_name = <<>>
    /\ sn_out = None

SanitizeFilename ==
    /\ sn_out = None
    /\ sn_out' = Some(sanitize_filename(sn_name, target_os))
    /\ UNCHANGED <<sn_name, tg_vars, mg_vars, ps_vars, target_os, bf_vars,
                   rn_vars, sc_vars, gui_vars, ft_vars, src_vars, qy_vars, pv_vars>>

SanitizeNext == SanitizeFilename

(***************************************************************************)
(* Query: build_search_query on records with short artists and titles      *)
(***************************************************************************)
MaxQueryLen == 2

QueryInfos ==
    {[DefaultTrackInfo EXCEPT !.artist = a, !.title = t] :
        a \in Opt(StringsUpTo({"a", "b", " "}, MaxQueryLen)),
        t \in Opt(StringsUpTo({"a", "b", " "}, MaxQueryLen))}

QueryInit ==
    /\ qy_info \in QueryInfos
    /\ qy_out = None

QueryIdle ==
    /\ qy_info = DefaultTrackInfo
    /\ qy_out = Some(<<>>)

BuildQuery ==
    /\ qy_out = None
    /\ qy_out' = Some(build_search_query(qy_info))
    /\ UNCHANGED <<qy_info, tg_vars, mg_vars, ps_vars, target_os, bf_vars,
                   rn_vars, sc_vars, gui_vars, ft_vars, src_vars, sn_vars, pv_vars>>

QueryNext == BuildQuery

(***************************************************************************)
(* Records: the operations that produce a metadata record, one after       *)
(* another, and merge_tags on what they produced                           *)
(***************************************************************************)
MaxOps == 3

RecordNames == {<<>>, FileAT, FileX, <<"1", "1">> \o Mp3Ext}

RecordDisks == {NoTag, Malformed, TaggedDisk, TagOf(FullOldTag)}

RecordResponses ==
    {[kind |-> "ok", items |-> <<PlainApiTrack>>],
     [kind |-> "ok",
      items |-> <<SpotifyApiTrack(<<"S">>, <<>>, SpotifyAlbum(<<"M">>, None, <<>>), 3)>>]}

RecordPages ==
    {[kind |-> "ok", rows |-> <<FullRow>>],
     [kind |-> "ok",
      rows |-> <<MelonRow(Some(Some(<<"7">>)), Some(Some(<<"T">>)), None, None)>>]}

RecordDetailPages ==
    {pg \in DetailPages :
        pg.kind = "ok" /\ pg.img = Some(Some(UrlResized))
            /\ Len(pg.dds) = 3}

RecordForms ==
    {EmptyEditFields,
     EditFields(<<" ", "T">>, <<"A">>, <<>>, <<" ">>, <<"0", "7">>, <<"x">>,
                <<"G">>)}

\* new_info of cmd_edit
CommandLineInfos ==
    {TrackInfo(t, None, None, None, None, y, None, art, None, "manual") :
        t \in Opt({<<"T">>}), y \in Opt({2024}), art \in Opt({PngMagic})}

RecordsInit ==
    /\ pv_rec = None
    /\ pv_prev = None
    /\ pv_by = "none"
    /\ pv_ops = 0

RecordsIdle ==
    /\ pv_rec = None
    /\ pv_prev = None
    /\ pv_by = "idle"
    /\ pv_ops = 0

not_pv_vars ==
    <<tg_vars, mg_vars, ps_vars, target_os, bf_vars, rn_vars, sc_vars, gui_vars,
      ft_vars, src_vars, sn_vars, qy_vars>>

Produce(rec, by) ==
    /\ pv_ops' = pv_ops + 1
    /\ pv_prev' = pv_rec
    /\ pv_rec' = Some(rec)
    /\ pv_by' = by
    /\ UNCHANGED not_pv_vars

RecordParse ==
    /\ pv_ops < MaxOps
    /\ \E name \in RecordNames : Produce(parse_filename(name), "parse_filename")

RecordRead ==
    /\ pv_ops < MaxOps
    /\ \E disk \in RecordDisks :
          LET r == read_tags(disk) IN
          /\ r[1] = "Ok" /\ IsSome(r[2])
          /\ Produce(Unwrap(r[2]), "read_tags")

RecordSpotifySearch ==
    /\ pv_ops < MaxOps
    /\ \E response \in RecordResponses :
          Produce(spotify_search(response)[2][1], "spotify search")

RecordSpotifyDetail ==
    /\ pv_ops < MaxOps
    /\ \E response \in RecordResponses, download \in {<<"Err">>, <<"Ok", <<0>>>>} :
          LET found == spotify_search(response)[2][1]
              detail == default_fetch_detail(
                            found, spotify_fetch_album_art(found, download)) IN
          /\ detail[1] = "Ok"
          /\ Produce(detail[2], "spotify fetch_detail")

RecordMelonSearch ==
    /\ pv_ops < MaxOps
    /\ \E page \in RecordPages :
          Produce(melon_search(page)[2][1], "melon search")

RecordMelonDetail ==
    /\ pv_ops < MaxOps
    /\ \E page \in RecordPages, detail_page \in RecordDetailPages, web \in Webs :
          LET detail == melon_fetch_detail(melon_search(page)[2][1],
                                           detail_page, web) IN
          /\ detail[1] = "Ok"
          /\ Produce(detail[2], "melon fetch_detail")

\* the record of save_current_tags
RecordManual ==
    /\ pv_ops < MaxOps
    /\ \E ed \in RecordForms, disk \in RecordDisks :
          Produce(edited_info(ed, load_mp3_file(<<"f">>, disk)), "manual")

\* new_info of cmd_edit
RecordCommandLine ==
    /\ pv_ops < MaxOps
    /\ \E info \in CommandLineInfos : Produce(info, "manual")

RecordMerge ==
    /\ IsSome(pv_rec)
    /\ pv_ops < MaxOps
    /\ pv_ops' = pv_ops + 1
    /\ pv_rec' = Some(merge_tags(pv_prev, Unwrap(pv_rec)))
    /\ pv_by' = "merge_tags"
    /\ UNCHANGED <<pv_prev, not_pv_vars>>

RecordsNext ==
    \/ RecordParse
    \/ RecordRead
    \/ RecordSpotifySearch
    \/ RecordSpotifyDetail
    \/ RecordMelonSearch
    \/ RecordMelonDetail
    \/ RecordManual
    \/ RecordCommandLine
    \/ RecordMerge

(***************************************************************************)
(* Specifications                                                          *)
(***************************************************************************)
OthersIdle(tg, mg, ps, bf, rn) ==
    /\ ScanIdle
    /\ GuiIdle
    /\ FetchIdle
    /\ SourcesIdle
    /\ SanitizeIdle
    /\ QueryIdle
    /\ RecordsIdle
    /\ tg => TaggerIdle
    /\ mg => MergeIdle
    /\ ps => ParserIdle
    /\ bf => FilenameIdle
    /\ rn => RenameIdle
    /\ (bf /\ rn) => target_os = "linux"

InitTagger == TaggerInit /\ OthersIdle(FALSE, TRUE, TRUE, TRUE, TRUE)
SpecTagger == InitTagger /\ [][TaggerNext]_vars

InitEdit == EditInit /\ OthersIdle(FALSE, TRUE, TRUE, TRUE, TRUE)
SpecEdit == InitEdit /\ [][EditNext]_vars

InitMerge == MergeInit /\ OthersIdle(TRUE, FALSE, TRUE, TRUE, TRUE)
SpecMerge == InitMerge /\ [][MergeNext]_vars

InitParser == ParserInit /\ OthersIdle(TRUE, TRUE, FALSE, TRUE, TRUE)
SpecParser == InitParser /\ [][ParserNext]_vars

InitFilename == FilenameInit /\ OthersIdle(TRUE, TRUE, TRUE, FALSE, TRUE)
SpecFilename == InitFilename /\ [][FilenameNext]_vars

InitRename == RenameInit /\ OthersIdle(TRUE, TRUE, TRUE, TRUE, FALSE)
SpecRename == InitRename /\ [][RenameNext]_vars

InitRace == RaceInit /\ OthersIdle(TRUE, TRUE, TRUE, TRUE, FALSE)
SpecRace == InitRace /\ [][RaceNext]_vars

IdleButScanAndGui ==
    /\ TaggerIdle /\ MergeIdle /\ ParserIdle /\ FilenameIdle /\ RenameIdle
    /\ SourcesIdle /\ SanitizeIdle /\ QueryIdle /\ RecordsIdle
    /\ target_os = "linux"

InitScan == ScanInit /\ GuiIdle /\ FetchIdle /\ IdleButScanAndGui
SpecScan == InitScan /\ [][ScanNext]_vars

InitGui == GuiInit /\ ScanIdle /\ FetchIdle /\ IdleButScanAndGui
SpecGui == InitGui /\ [][GuiNext]_vars

InitLoad == LoadInit /\ GuiIdle /\ FetchIdle /\ IdleButScanAndGui
SpecLoad == InitLoad /\ [][LoadNext]_vars

InitFetch == FetchInit /\ ScanIdle /\ GuiIdle /\ IdleButScanAndGui
SpecFetch == InitFetch /\ [][FetchNext]_vars

CoreIdle ==
    /\ TaggerIdle /\ MergeIdle /\ ParserIdle /\ FilenameIdle /\ RenameIdle
    /\ ScanIdle /\ GuiIdle /\ FetchIdle /\ RecordsIdle

InitSources ==
    SourcesInit /\ CoreIdle /\ SanitizeIdle /\ QueryIdle /\ target_os = "linux"
SpecSources == InitSources /\ [][SourcesNext]_vars

InitSanitize == SanitizeInit /\ CoreIdle /\ SourcesIdle /\ QueryIdle
SpecSanitize == InitSanitize /\ [][SanitizeNext]_vars

InitQuery ==
    QueryInit /\ CoreIdle /\ SourcesIdle /\ SanitizeIdle /\ target_os = "linux"
SpecQuery == InitQuery /\ [][QueryNext]_vars

InitRecords ==
    /\ RecordsInit
    /\ TaggerIdle /\ MergeIdle /\ ParserIdle /\ FilenameIdle /\ RenameIdle
    /\ ScanIdle /\ GuiIdle /\ FetchIdle
    /\ SourcesIdle /\ SanitizeIdle /\ QueryIdle /\ target_os = "linux"
SpecRecords == InitRecords /\ [][RecordsNext]_vars

InitOverlap == OverlapInit /\ ScanIdle /\ FetchIdle /\ IdleButScanAndGui
SpecOverlap == InitOverlap /\ [][OverlapNext]_vars

(***************************************************************************)
(* Claims on the tagger                                                    *)
(***************************************************************************)
TextFrames ==
    {<<"title", "title">>, <<"artist", "artist">>, <<"album", "album">>,
     <<"album_artist", "album_artist">>, <<"track", "track_number">>,
     <<"year", "year">>, <<"genre", "genre">>}

\* the value of frame f in a file's container; absent when the file has no
\* readable container
FrameOf(disk, f) == IF disk.kind = "Tag" THEN disk.tag[f] ELSE None
PicturesOf(disk) == IF disk.kind = "Tag" THEN disk.tag.pictures ELSE <<>>

WroteOk == tg_pc = "written" /\ tg_res = "ok"

\* C1: after a successful write_tags(path, r), every tag field whose
\* counterpart in r is absent has the value it had before the write, and
\* every field present in r has r's value (pictures: the one picture made
\* of r's album-art bytes).
C1_WriteFrame ==
    WroteOk =>
        LET r == Unwrap(tg_rec) IN
        /\ tg_disk.kind = "Tag"
        /\ \A fr \in TextFrames :
              FrameOf(tg_disk, fr[1]) =
                  IF IsSome(r[fr[2]]) THEN r[fr[2]]
                  ELSE FrameOf(tg_before, fr[1])
        /\ IF IsSome(r.album_art)
           THEN /\ Len(PicturesOf(tg_disk)) = 1
                /\ PicturesOf(tg_disk)[1].data = Unwrap(r.album_art)
           ELSE PicturesOf(tg_disk) = PicturesOf(tg_before)

\* a write that overwrote one frame, kept another and kept two pictures
C1_Witness ==
    /\ WroteOk
    /\ Unwrap(tg_rec).title = Some(<<"T">>)
    /\ FrameOf(tg_before, "title") = Some(<<"o">>)
    /\ FrameOf(tg_disk, "title") = Some(<<"T">>)
    /\ Unwrap(tg_rec).album = None
    /\ FrameOf(tg_disk, "album") = Some(<<"q">>)
    /\ Unwrap(tg_rec).album_art = None
    /\ Len(PicturesOf(tg_disk)) = 2

\* C7: a file record produced by load_mp3_file has has_tags true if and
\* only if title, artist or album of the embedded container is non-empty.
NonEmptyFrame(disk, f) ==
    IsSome(FrameOf(disk, f)) /\ Unwrap(FrameOf(disk, f)) # <<>>

HasUsableTags(disk) ==
    NonEmptyFrame(disk, "title") \/ NonEmptyFrame(disk, "artist")
        \/ NonEmptyFrame(disk, "album")

C7_HasTagsIffNonEmpty ==
    (tg_pc = "loaded") =>
        /\ Unwrap(tg_file).has_tags <=> HasUsableTags(tg_disk)
        /\ IsSome(Unwrap(tg_file).current_tags) <=> HasUsableTags(tg_disk)

\* C10: after a successful write_tags with album-art bytes present the
\* container holds exactly one picture, with the record's bytes, typed
\* image/png when the bytes start with 89 50 4E 47 and image/jpeg otherwise.
IsPngData(data) ==
    /\ Len(data) >= 4
    /\ data[1] = 137 /\ data[2] = 80 /\ data[3] = 78 /\ data[4] = 71

C10_OnePicture ==
    (WroteOk /\ IsSome(Unwrap(tg_rec).album_art)) =>
        LET pics == PicturesOf(tg_disk)
            data == Unwrap(Unwrap(tg_rec).album_art) IN
        /\ Len(pics) = 1
        /\ pics[1].data = data
        /\ pics[1].mime_type =
              IF IsPngData(data) THEN "image/png" ELSE "image/jpeg"

\* two pictures before, one PNG picture after
C10_Witness ==
    /\ WroteOk
    /\ Len(PicturesOf(tg_before)) = 2
    /\ Unwrap(tg_rec).album_art = Some(PngMagic)
    /\ Len(PicturesOf(tg_disk)) = 1
    /\ PicturesOf(tg_disk)[1].mime_type = "image/png"

\* empty image data is written as one image/jpeg picture
C10_WitnessEmpty ==
    /\ WroteOk
    /\ Unwrap(tg_rec).album_art = Some(<<>>)
    /\ PicturesOf(tg_disk)[1].mime_type = "image/jpeg"

(***************************************************************************)
(* Claims on merge_tags                                                    *)
(***************************************************************************)
OptionalFields ==
    {"title", "artist", "album", "album_artist", "track_number", "year",
     "genre", "album_art", "album_art_url"}

\* C2: merge_tags(e, n) has, for each of the nine optional fields, n's value
\* when n's field is present and otherwise e's value (absent when e is absent
\* or e's field is absent); its provenance is n's; merge_tags(None, n) = n.
C2_MergeRightBiased ==
    IsSome(mg_out) =>
        LET out == Unwrap(mg_out) IN
        /\ \A f \in OptionalFields :
              out[f] = IF IsSome(mg_new[f]) THEN mg_new[f]
                       ELSE IF IsSome(mg_existing)
                            THEN Unwrap(mg_existing)[f]
                            ELSE None
        /\ out.source = mg_new.source
        /\ (mg_existing = None => out = mg_new)

\* a merge that took one field from each side and left one absent
C2_Witness ==
    /\ IsSome(mg_out)
    /\ IsSome(mg_existing)
    /\ mg_new.title = None /\ Unwrap(mg_out).title = Some(<<"o">>)
    /\ Unwrap(mg_existing).artist = Some(<<"p">>)
    /\ Unwrap(mg_out).artist = Some(<<"A">>)
    /\ Unwrap(mg_out).album_art_url = Some(<<"u">>)
    /\ Unwrap(mg_out).genre = None
    /\ Unwrap(mg_out).source = "spotify"

(***************************************************************************)
(* Claims on the filename parser                                           *)
(***************************************************************************)
Min(S) == CHOOSE x \in S : \A y \in S : x <= y
Max(S) == CHOOSE x \in S : \A y \in S : x >= y

\* s without its leading and trailing blanks
Trimmed(s) ==
    LET solid == {i \in 1..Len(s) : s[i] # " "} IN
    IF solid = {} THEN <<>> ELSE SubSeq(s, Min(solid), Max(solid))

\* s without its leading blanks
LeftTrimmed(s) ==
    LET solid == {i \in 1..Len(s) : s[i] # " "} IN
    IF solid = {} THEN <<>> ELSE SubSeq(s, Min(solid), Len(s))

\* the positions at which " - " occurs in s
SepAt(s) ==
    {i \in 1..(Len(s) - 2) : s[i] = " " /\ s[i + 1] = "-" /\ s[i + 2] = " "}

\* the stem of the file "<stem>.mp3" that was parsed; the file ".mp3" has no
\* extension and is its own stem
ParsedStem ==
    IF ps_name = Mp3Ext THEN ps_name
    ELSE SubSeq(ps_name, 1, Len(ps_name) - Len(Mp3Ext))

HalfA(s) == SubSeq(s, 1, Min(SepAt(s)) - 1)
HalfB(s) == SubSeq(s, Min(SepAt(s)) + 3, Len(s))

\* the stem is "A - B", split at the first " - ", with non-empty trimmed A, B
IsArtistTitleStem(s) ==
    /\ SepAt(s) # {}
    /\ Trimmed(HalfA(s)) # <<>>
    /\ Trimmed(HalfB(s)) # <<>>

Parsed == ps_name # <<>> /\ IsSome(ps_out)

\* C3 as stated: every stem "A - B" with non-empty trimmed A and B parses to
\* artist = trimmed A, title = trimmed B, also when A begins with digits.
C3_ArtistTitleAnyA ==
    (Parsed /\ IsArtistTitleStem(ParsedStem)) =>
        /\ Unwrap(ps_out).artist = Some(Trimmed(HalfA(ParsedStem)))
        /\ Unwrap(ps_out).title = Some(Trimmed(HalfB(ParsedStem)))

\* C3 amended: every stem "A - B" with non-empty trimmed A and B, whose
\* trimmed A does not begin with a decimal digit, parses to artist = trimmed
\* A, title = trimmed B.
C3_ArtistTitleNoDigit ==
    (/\ Parsed
     /\ IsArtistTitleStem(ParsedStem)
     /\ Trimmed(HalfA(ParsedStem))[1] \notin Digits) =>
        /\ Unwrap(ps_out).artist = Some(Trimmed(HalfA(ParsedStem)))
        /\ Unwrap(ps_out).title = Some(Trimmed(HalfB(ParsedStem)))

\* a stem with two separators, split at the first one, blanks trimmed
C3_Witness ==
    /\ Parsed
    /\ IsArtistTitleStem(ParsedStem)
    /\ Cardinality(SepAt(ParsedStem)) = 2
    /\ Trimmed(HalfA(ParsedStem)) = <<"a">>
    /\ Unwrap(ps_out).artist = Some(<<"a">>)
    /\ Unwrap(ps_out).title = Some(<<"-", " ", "a">>)

\* digit stripping: one or more leading decimal digits, then an optional
\* single '.', then leading whitespace; skipped (None) when there is no digit
\* or nothing remains
LeadingDigits(s) ==
    Cardinality({i \in 1..Len(s) : \A j \in 1..i : s[j] \in Digits})

Stripped(s) ==
    LET k == LeadingDigits(s)
        afterDigits == SubSeq(s, k + 1, Len(s))
        afterDot == IF afterDigits # <<>> /\ afterDigits[1] = "."
                    THEN SubSeq(afterDigits, 2, Len(afterDigits))
                    ELSE afterDigits
        rest == LeftTrimmed(afterDot) IN
    IF k = 0 \/ rest = <<>> THEN None ELSE Some(rest)

\* the split rule: exactly two non-empty (after trim) halves around the
\* first " - "
SplitRule(s) ==
    IF IsArtistTitleStem(s)
    THEN Some([artist |-> Some(Trimmed(HalfA(s))),
               title |-> Some(Trimmed(HalfB(s)))])
    ELSE None

Rule1(s) == IF IsSome(Stripped(s)) THEN SplitRule(Unwrap(Stripped(s))) ELSE None
Rule2(s) == SplitRule(s)
Rule3(s) ==
    IF IsSome(Stripped(s))
    THEN Some([artist |-> None, title |-> Some(Trimmed(Unwrap(Stripped(s))))])
    ELSE None
Rule4(s) == Some([artist |-> None, title |-> Some(s)])

FirstMatch(s) ==
    Unwrap(IF IsSome(Rule1(s)) THEN Rule1(s)
           ELSE IF IsSome(Rule2(s)) THEN Rule2(s)
           ELSE IF IsSome(Rule3(s)) THEN Rule3(s)
           ELSE Rule4(s))

\* C4: parse_filename returns the result of the first rule that matches, in
\* the order numbered artist-title, artist-title, numbered title, fallback
\* (the whole trimmed stem as title), every other field absent.
C4_FirstMatchingRule ==
    Parsed =>
        LET m == FirstMatch(Trimmed(ParsedStem)) IN
        Unwrap(ps_out) =
            TrackInfo(m.title, m.artist, None, None, None, None, None, None,
                      None, "filename")

\* rules 1 and 2 fail on a numbered stem and rule 3 gives the title
C4_Witness ==
    /\ Parsed
    /\ Rule1(Trimmed(ParsedStem)) = None
    /\ Rule2(Trimmed(ParsedStem)) = None
    /\ IsSome(Rule3(Trimmed(ParsedStem)))
    /\ ParsedStem = <<"1", "1", ".", " ", "a", "-", "a">>
    /\ Unwrap(ps_out).title = Some(<<"a", "-", "a">>)
    /\ Unwrap(ps_out).artist = None

(***************************************************************************)
(* Claims on the renamer                                                   *)
(***************************************************************************)
\* C6: build_filename returns absent if and only if artist or title is
\* missing or empty after trimming; otherwise it returns exactly
\* "{sanitize(trimmed artist)} - {sanitize(trimmed title)}.mp3".
FieldUsable(f) == IsSome(f) /\ Trimmed(Unwrap(f)) # <<>>

C6_BuildFilename ==
    IsSome(bf_out) =>
        LET out == Unwrap(bf_out) IN
        /\ (out = None) <=>
               ~(FieldUsable(bf_info.artist) /\ FieldUsable(bf_info.title))
        /\ (out # None) =>
               Unwrap(out) =
                   sanitize_filename(Trimmed(Unwrap(bf_info.artist)), target_os)
                       \o <<" ", "-", " ">>
                       \o sanitize_filename(Trimmed(Unwrap(bf_info.title)),
                                            target_os)
                       \o <<".", "m", "p", "3">>

\* a name built from fields that needed trimming and sanitising
C6_Witness ==
    /\ IsSome(bf_out)
    /\ bf_info.artist = Some(<<" ", "a", "/">>)
    /\ bf_info.title = Some(<<NUL, " ">>)
    /\ Unwrap(bf_out) =
           Some(<<"a", "_", " ", "-", " ", "_", ".", "m", "p", "3">>)

\* an artist of blanks only gives no name
C6_WitnessAbsent ==
    /\ IsSome(bf_out)
    /\ bf_info.artist = Some(<<" ", " ">>)
    /\ bf_info.title = Some(<<"a">>)
    /\ Unwrap(bf_out) = None

\* the target path computed by the last rename_file call: Some(the source's
\* directory joined with the built name), None when no name can be built
LastCall == Unwrap(rn_last)
LastTarget ==
    LET name == build_filename(LastCall.info, target_os) IN
    IF IsSome(name)
    THEN Some(Append(SubSeq(LastCall.old_path, 1, Len(LastCall.old_path) - 1),
                     Unwrap(name)))
    ELSE None

\* the file system `before` with the file at `from` moved to `to`
Moved(before, from, to) ==
    [p \in (DOMAIN before \ {from}) \cup {to} |->
        IF p = to THEN before[from] ELSE before[p]]

\* C5: rename_file mutates nothing and returns the original path when the
\* target equals the current path; returns an error and mutates nothing when
\* a different file exists at the target; only otherwise is the file moved
\* to the target and the new path returned.
C5_RenameNoOpOrFail ==
    IsSome(rn_last) =>
        LET old == LastCall.old_path
            before == LastCall.before
            res == LastCall.res IN
        /\ (LastTarget = Some(old)) =>
               (res = <<"Ok", old>> /\ rn_fs = before)
        /\ (IsSome(LastTarget) /\ Unwrap(LastTarget) # old
                /\ Unwrap(LastTarget) \in DOMAIN before) =>
               (res[1] = "Err" /\ rn_fs = before)
        /\ (rn_fs # before \/ (res[1] = "Ok" /\ res[2] # old)) =>
               /\ IsSome(LastTarget)
               /\ Unwrap(LastTarget) # old
               /\ Unwrap(LastTarget) \notin DOMAIN before
               /\ old \in DOMAIN before
               /\ rn_fs = Moved(before, old, Unwrap(LastTarget))
               /\ res = <<"Ok", Unwrap(LastTarget)>>

\* a call whose target was occupied by another file: an error, both files
\* where they were
C5_Witness ==
    /\ IsSome(rn_last)
    /\ LastCall.old_path = <<"d", FileX>>
    /\ LastTarget = Some(<<"d", FileAT>>)
    /\ LastCall.res = <<"Err", "exists">>
    /\ rn_fs = LastCall.before
    /\ <<"d", FileX>> \in DOMAIN rn_fs
    /\ rn_fs[<<"d", FileAT>>] = 1

\* a call whose target equals the current path
C5_WitnessSame ==
    /\ IsSome(rn_last)
    /\ LastTarget = Some(LastCall.old_path)
    /\ LastCall.res = <<"Ok", LastCall.old_path>>

\* a call that moved the file
C5_WitnessMoved ==
    /\ IsSome(rn_last)
    /\ LastCall.old_path = <<"d", FileX>>
    /\ LastCall.res = <<"Ok", <<"d", FileAT>>>>
    /\ <<"d", FileX>> \notin DOMAIN rn_fs
    /\ rn_fs[<<"d", FileAT>>] = 3


(***************************************************************************)
(* Scanner claims                                                          *)
(***************************************************************************)
ScanOk == IsSome(sc_result) /\ Unwrap(sc_result)[1] = "Ok"
Records == Unwrap(sc_result)[2]

Below(p, root) == Len(p) > Len(root) /\ SubSeq(p, 1, Len(root)) = root

\* the last component is a non-empty stem, a dot and "mp3" in either case
HasMp3Extension(p) ==
    LET n == p[Len(p)] IN
    /\ Len(n) >= 5
    /\ n[Len(n) - 3] = "."
    /\ n[Len(n) - 2] \in {"m", "M"}
    /\ n[Len(n) - 1] \in {"p", "P"}
    /\ n[Len(n)] = "3"

Mp3Entries ==
    {p \in DOMAIN sc_tree :
        Below(p, sc_root) /\ sc_tree[p].kind # "dir" /\ HasMp3Extension(p)}

NameBefore(a, b) ==
    \E k \in 1..(Min({Len(a), Len(b)}) + 1) :
        /\ \A i \in 1..(k - 1) : a[i] = b[i]
        /\ \/ k > Len(a) /\ k <= Len(b)
           \/ k <= Len(a) /\ k <= Len(b) /\ Code(a[k]) < Code(b[k])

PathBefore(a, b) ==
    \E k \in 1..(Min({Len(a), Len(b)}) + 1) :
        /\ \A i \in 1..(k - 1) : a[i] = b[i]
        /\ \/ k > Len(a) /\ k <= Len(b)
           \/ k <= Len(a) /\ k <= Len(b) /\ NameBefore(a[k], b[k])

\* C8: a successful scan_directory returns exactly one record for every
\* non-directory entry below the root whose extension is "mp3" in any case,
\* none for any other entry, whether the file carries tags or not (has_tags
\* says which), and the records ascend by path.
C8_ScanDirectory ==
    ScanOk =>
        /\ {Records[i].path : i \in 1..Len(Records)} = Mp3Entries
        /\ Len(Records) = Cardinality(Mp3Entries)
        /\ \A i \in 1..Len(Records) :
               Records[i].has_tags = (sc_tree[Records[i].path].disk # NoTag)
        /\ \A i, j \in 1..Len(Records) :
               i < j => PathBefore(Records[i].path, Records[j].path)

\* a scan that found a tagged and an untagged file at different depths, one
\* of them under a directory named like an mp3 file, and passed over a file
\* with another extension
C8_Witness ==
    /\ ScanOk
    /\ Len(Records) >= 3
    /\ \E i, j \in 1..Len(Records) :
           /\ Records[i].has_tags /\ ~Records[j].has_tags
           /\ Len(Records[i].path) # Len(Records[j].path)
    /\ \E i \in 1..Len(Records) : Len(Records[i].path) = 4
    /\ \E p \in DOMAIN sc_tree :
           Below(p, sc_root) /\ sc_tree[p].kind = "file" /\ ~HasMp3Extension(p)

\* a scan whose result lists a file in a subdirectory before a file of the
\* root whose name continues the subdirectory's name
C8_WitnessOrder ==
    /\ ScanOk
    /\ \E i, j \in 1..Len(Records) :
           /\ i < j
           /\ Len(Records[i].path) = 3
           /\ Records[j].path = Append(ScanRoot, NameDMp3)


(***************************************************************************)
(* GUI claims                                                              *)
(***************************************************************************)
WroteFile(ops) ==
    /\ IsSome(gui_last)
    /\ Unwrap(gui_last).op \in ops
    /\ Unwrap(gui_last).ok

LastWritten == files[Unwrap(gui_last).index]

SevenFields ==
    {"title", "artist", "album", "album_artist", "track_number", "year",
     "genre"}

\* the record read_tags returns for the file, every field absent when it
\* returns none
NowOnDisk(file) ==
    LET r == read_tags(gui_disk[file.path]) IN
    IF r[1] = "Ok" /\ IsSome(r[2]) THEN Unwrap(r[2]) ELSE DefaultTrackInfo

\* C9: right after a successful save_current_tags or apply_search_result the
\* written file's current_tags is present and its title, artist, album,
\* album artist, track number, year and genre are what read_tags now returns
\* for the file.
C9_CurrentTagsReflectFile ==
    WroteFile({"save", "apply"}) =>
        /\ IsSome(LastWritten.current_tags)
        /\ \A f \in SevenFields :
               Unwrap(LastWritten.current_tags)[f] = NowOnDisk(LastWritten)[f]


(***************************************************************************)
(* Claims on the failure of write_tags                                     *)
(***************************************************************************)
Written == tg_pc = "written"

C11_WitnessFailed ==
    /\ Written
    /\ tg_before.kind = "Tag"
    /\ tg_res = "err"


(***************************************************************************)
(* Claims on malformed containers                                          *)
(***************************************************************************)
IsMalformedFile(p) ==
    p \in DOMAIN sc_tree /\ sc_tree[p].kind = "file"
        /\ sc_tree[p].disk = Malformed

\* C12: scan_directory records a file with a malformed container as having
\* no tags, and load_single_file on such a file returns an error.
C12_MalformedScanVsLoad ==
    /\ (sc_call = "scan_directory" /\ ScanOk) =>
           \A i \in 1..Len(Records) :
               IsMalformedFile(Records[i].path) =>
                   ~Records[i].has_tags /\ Records[i].current_tags = None
    /\ (sc_call = "load_single_file" /\ IsMalformedFile(sc_root)
            /\ HasMp3Extension(sc_root)) =>
           Unwrap(sc_result)[1] = "Err"


(***************************************************************************)
(* Claims on cmd_fetch                                                     *)
(***************************************************************************)
\* the log holds an event <<kind, idx, res>> of the file at position idx
Has(kind, idx, res) == \E i \in DOMAIN ft_log : ft_log[i] = <<kind, idx, res>>

Attempted(kind, idx) ==
    \E i \in DOMAIN ft_log : ft_log[i][1] = kind /\ ft_log[i][2] = idx

Touched ==
    \E i \in DOMAIN ft_log :
        ft_log[i][1] \in {"scan", "search", "select", "art", "write"}

AuthFails == ~is_configured(ft_cfg) \/ ft_exchange # "accepted"

\* the iteration after the one of position idx has run, when there is one
NextProcessed(idx) ==
    ft_pc = "done" /\ idx < Len(ft_targets) => ft_next > idx + 1

\* C13: when the credentials are missing or the token exchange does not
\* succeed, cmd_fetch performs no scan, no search and no tag write; whenever
\* it does one of these, a successful authentication is the first thing it
\* did.
C13_AuthBeforeAnyFile ==
    /\ AuthFails => ~Touched
    /\ Touched => ft_log[1] = <<"auth", "client">>
    /\ ft_pc = "done" /\ AuthFails =>
           ft_result = (IF is_configured(ft_cfg) THEN "Err" ELSE "Ok")

C13_Witness ==
    /\ ft_pc = "done"
    /\ is_configured(ft_cfg)
    /\ ft_exchange = "rejected"
    /\ DOMAIN ft_tree # {ScanRoot}
    /\ ft_log = <<<<"auth", "failed">>>>

C13_WitnessMissing ==
    /\ ft_pc = "done"
    /\ ~IsSome(ft_cfg.client_id)
    /\ DOMAIN ft_tree # {ScanRoot}
    /\ ft_log = <<>>

C13_WitnessTouched == Touched /\ \E idx \in 1..3 : Has("write", idx, "ok")

\* C14 as stated: a failed search or a failed album art download for one
\* target file leaves that file without a tag write, and the file after it
\* is still processed.
C14_RemoteFailureSkips ==
    \A idx \in 1..Len(ft_targets) :
        Has("search", idx, "err") \/ Has("art", idx, "err") =>
            ~Attempted("write", idx) /\ NextProcessed(idx)

\* C14: a failed search for one target file leaves that file without a tag
\* write and as it was, and the file after it is still processed; a failed
\* album art download does not skip the file: its tags are written from the
\* chosen record without a picture, and the file after it is still processed
\* when that write succeeds.
C14_SearchFailureSkipsArtFailureWrites ==
    \A idx \in 1..Len(ft_targets) :
        LET disk == container_at(ft_tree, ft_targets[idx].path) IN
        /\ Has("search", idx, "err") =>
               /\ ~Attempted("write", idx)
               /\ ~Attempted("select", idx)
               /\ ~load_mp3_file(ft_targets[idx].path, disk).has_tags
               /\ NextProcessed(idx)
        /\ Has("art", idx, "err") =>
               /\ Attempted("write", idx)
               /\ Has("write", idx, "ok") =>
                      /\ FrameOf(disk, "title") = Some(<<"S">>)
                      /\ PicturesOf(disk) = <<>>
                      /\ NextProcessed(idx)

C14_Witness ==
    /\ ft_pc = "done"
    /\ Len(ft_targets) = 3
    /\ Has("search", 1, "err")
    /\ Has("art", 2, "err")
    /\ Has("write", 2, "ok")
    /\ Has("write", 3, "ok")

\* C15: a failed tag write to one target file does not end the batch: the
\* target files after it are still processed.
C15_WriteFailureKeepsBatchGoing ==
    \A idx \in 1..Len(ft_targets) :
        Has("write", idx, "err") => NextProcessed(idx)

(***************************************************************************)
(* Claims on the catalogs                                                  *)
(***************************************************************************)
\* a search has just returned records
SearchReturned ==
    /\ src_client \in {"spotify", "melon"}
    /\ src_picked = None
    /\ Unwrap(src_results)[1] = "Ok"

Returned == Unwrap(src_results)[2]

\* C16 as stated: every record returned by search, in either catalog, has no
\* album art bytes and has an album art reference.
C16_SearchRecordsHaveReference ==
    SearchReturned =>
        \A i \in DOMAIN Returned :
            ~IsSome(Returned[i].album_art) /\ IsSome(Returned[i].album_art_url)

\* C16: every record returned by search, in either catalog, has no album art
\* bytes; a record of Melon always has an album art reference, a record of
\* Spotify has one exactly when the album of its track lists an image.
C16_ReferenceUnlessNoImages ==
    SearchReturned =>
        /\ \A i \in DOMAIN Returned : ~IsSome(Returned[i].album_art)
        /\ src_client = "melon" =>
               \A i \in DOMAIN Returned : IsSome(Returned[i].album_art_url)
        /\ src_client = "spotify" =>
               /\ Len(Returned) = Len(src_env.items)
               /\ \A i \in DOMAIN Returned :
                      IsSome(Returned[i].album_art_url)
                          <=> src_env.items[i].album.images # <<>>

C16_Witness ==
    /\ SearchReturned
    /\ src_client = "spotify"
    /\ Len(Returned) = 2
    /\ src_env.items[1].album.images = <<>>
    /\ ~IsSome(Returned[1].album_art_url)
    /\ Returned[2].album_art_url = Some("u9")

C16_WitnessMelon ==
    /\ SearchReturned
    /\ src_client = "melon"
    /\ Len(Returned) = 2
    /\ Returned[1].album_art_url = Some(DetailPrefix \o <<"7">>)

\* the names with ", " between them, built from the last name backwards
RECURSIVE Joined(_)
Joined(names) ==
    IF names = <<>> THEN <<>>
    ELSE IF Len(names) = 1 THEN names[1]
    ELSE Joined(SubSeq(names, 1, Len(names) - 1))
             \o <<",", " ">> \o names[Len(names)]

\* the part of d before its first '-'
LeadingComponent(d) ==
    CHOOSE c \in {SubSeq(d, 1, k) : k \in 0..Len(d)} :
        /\ \A i \in 1..Len(c) : c[i] # "-"
        /\ Len(c) = Len(d) \/ d[Len(c) + 1] = "-"

WidthOf(img) == IF img.width = None THEN 0 ELSE img.width[1]

\* C17: for every track of a Spotify response, the record of convert_track
\* has the artist names joined with ", " in listed order as artist, the
\* first listed artist as album artist, the integer value of the part of
\* the release date before its first '-' as year (none without a date or
\* when that part is no integer), and as art reference the URL of an image
\* no narrower than any other image offered.
C17_ConvertTrack ==
    SearchReturned /\ src_client = "spotify" =>
        \A i \in DOMAIN Returned :
            LET rec == Returned[i]
                track == src_env.items[i]
                date == track.album.release_date
                images == track.album.images IN
            /\ rec.artist = Some(Joined(track.artists))
            /\ rec.album_artist = IF track.artists = <<>> THEN None
                                  ELSE Some(track.artists[1])
            /\ rec.year = IF date = None THEN None
                          ELSE parse_i32(LeadingComponent(date[1]))
            /\ images # <<>> =>
                   \E k \in DOMAIN images :
                       /\ rec.album_art_url = Some(images[k].url)
                       /\ \A j \in DOMAIN images :
                              WidthOf(images[k]) >= WidthOf(images[j])

C17_Witness ==
    /\ SearchReturned
    /\ src_client = "spotify"
    /\ Len(Returned) = 1
    /\ Len(src_env.items[1].artists) = 3
    /\ Len(src_env.items[1].album.images) = 3
    /\ Returned[1].artist = Some(<<"B", ",", " ", "A", ",", " ", "C">>)
    /\ Returned[1].album_artist = Some(<<"B">>)
    /\ Returned[1].year = Some(2019)
    /\ Returned[1].album_art_url = Some("u2")

C17_WitnessNoYear ==
    /\ SearchReturned
    /\ src_client = "spotify"
    /\ Len(Returned) = 1
    /\ src_env.items[1].album.release_date = Some(<<"x", "9">>)
    /\ Returned[1].year = None

\* fetch_detail and fetch_album_art of Melon have just run on a detail page
\* that was read and names an image
DetailFetched ==
    /\ src_client = "melon"
    /\ IsSome(src_picked)
    /\ src_env.page.kind = "ok"
    /\ IsSome(src_env.page.img)
    /\ IsSome(Unwrap(src_env.page.img))

\* what the download of the original image met
ImageGot == src_env.web[UrlOriginal]

ImageFailed ==
    ImageGot.kind = "unreachable"
        \/ (ImageGot.kind = "response" /\ ImageGot.status # 200)

\* C18: when the download of the image fails (the request cannot be sent or
\* the response is no success), fetch_detail of Melon returns Ok with the
\* metadata of the page and without album art; and fetch_album_art returns
\* an error whenever fetch_detail gave no album art.
C18_ImageFailureLeavesArtAbsent ==
    /\ DetailFetched /\ ImageFailed =>
           /\ Unwrap(src_detail)[1] = "Ok"
           /\ Unwrap(src_detail)[2] =
                  apply_pairs(Unwrap(src_picked), src_env.page.dts,
                              src_env.page.dds)
           /\ ~IsSome(Unwrap(src_detail)[2].album_art)
    /\ (/\ src_client = "melon"
        /\ IsSome(src_picked)
        /\ \/ Unwrap(src_detail)[1] = "Err"
           \/ ~IsSome(Unwrap(src_detail)[2].album_art))
           => Unwrap(src_art)[1] = "Err"

(***************************************************************************)
(* Claims on sanitize_filename and build_search_query                      *)
(***************************************************************************)
\* the characters sanitize_filename does not keep on a target
UnsafeOn(os) ==
    {"/", NUL}
        \cup (IF os = "windows" THEN WindowsReserved \cup {"\t", "\n", "\r"}
              ELSE {})
        \cup (IF os = "macos" THEN {":"} ELSE {})

\* C19: sanitize_filename replaces every '/' and every NUL with '_' on every
\* target, returns its input unchanged when no character of it is unsafe on
\* the target (text outside ASCII included), and on a target that is neither
\* Windows nor macOS keeps every character other than '/' and NUL.
C19_SanitizeFilename ==
    IsSome(sn_out) =>
        LET out == Unwrap(sn_out) IN
        /\ Len(out) = Len(sn_name)
        /\ \A i \in DOMAIN sn_name :
               sn_name[i] \in {"/", NUL} => out[i] = "_"
        /\ (\A i \in DOMAIN sn_name : sn_name[i] \notin UnsafeOn(target_os))
               => out = sn_name
        /\ target_os \notin {"windows", "macos"} =>
               \A i \in DOMAIN sn_name :
                   sn_name[i] \notin {"/", NUL} => out[i] = sn_name[i]

C19_Witness ==
    /\ target_os = "linux"
    /\ sn_name = <<"/", NUL, ":">>
    /\ sn_out = Some(<<"_", "_", ":">>)

C19_WitnessUnchanged ==
    /\ target_os = "windows"
    /\ sn_name = <<Hangul, " ", "a">>
    /\ sn_out = Some(sn_name)

\* C20: build_search_query returns the artist, one space and the title when
\* both are present, the one present field alone when only one is, and the
\* empty string when both are absent.
C20_BuildSearchQuery ==
    IsSome(qy_out) =>
        LET q == Unwrap(qy_out)
            a == qy_info.artist
            t == qy_info.title IN
        /\ a # None /\ t # None =>
               /\ Len(q) = Len(a[1]) + 1 + Len(t[1])
               /\ SubSeq(q, 1, Len(a[1])) = a[1]
               /\ q[Len(a[1]) + 1] = " "
               /\ SubSeq(q, Len(a[1]) + 2, Len(q)) = t[1]
        /\ a # None /\ t = None => q = a[1]
        /\ a = None /\ t # None => q = t[1]
        /\ a = None /\ t = None => q = <<>>

C20_Witness ==
    /\ qy_info.artist = Some(<<"a", "b">>)
    /\ qy_info.title = Some(<<"b">>)
    /\ qy_out = Some(<<"a", "b", " ", "b">>)

C20_WitnessArtistOnly ==
    /\ qy_info.artist = Some(<<"a">>)
    /\ qy_info.title = None
    /\ qy_out = Some(<<"a">>)

C20_WitnessNeither ==
    /\ qy_info.artist = None
    /\ qy_info.title = None
    /\ qy_out = Some(<<>>)

(***************************************************************************)
(* Further claims on the parser                                            *)
(***************************************************************************)
DigitsOnly(s) == s # <<>> /\ \A i \in DOMAIN s : s[i] \in Digits

\* C21: a stem of decimal digits only, a single digit included, matches none
\* of the rules 1 to 3, and parse_filename returns the whole digit string as
\* title, without artist.
C21_DigitStemIsTitle ==
    Parsed /\ DigitsOnly(ParsedStem) =>
        /\ try_numbered_artist_title(ParsedStem) = None
        /\ try_artist_title(ParsedStem) = None
        /\ try_numbered_title(ParsedStem) = None
        /\ Unwrap(ps_out).title = Some(ParsedStem)
        /\ Unwrap(ps_out).artist = None

C21_Witness ==
    /\ Parsed
    /\ ParsedStem = <<"1", "1", "1">>
    /\ Unwrap(ps_out).title = Some(<<"1", "1", "1">>)

C21_WitnessOneDigit ==
    /\ Parsed
    /\ ParsedStem = <<"1">>
    /\ Unwrap(ps_out).title = Some(<<"1">>)

(***************************************************************************)
(* Further claims on the scanner                                           *)
(***************************************************************************)
Called(op) == sc_call = op /\ IsSome(sc_result)

RootIsDir == sc_root \in DOMAIN sc_tree /\ sc_tree[sc_root].kind = "dir"

\* C22: scan_directory fails when its root is no directory; load_single_file
\* fails with "not found" when the path does not exist, with "not mp3" when
\* it exists with an extension other than mp3 (in any case of the letters),
\* and loads the file otherwise; scan_path scans when the path is a
\* directory, and otherwise loads the one file and returns a list of that
\* one record.
C22_ScannerErrorsAndDispatch ==
    /\ Called("scan_directory") /\ ~RootIsDir =>
           Unwrap(sc_result) = <<"Err", "not a directory">>
    /\ Called("load_single_file") =>
           Unwrap(sc_result)[1] =
               IF sc_root \in DOMAIN sc_tree /\ HasMp3Extension(sc_root)
               THEN "Ok" ELSE "Err"
    /\ Called("load_single_file") /\ sc_root \notin DOMAIN sc_tree =>
           Unwrap(sc_result) = <<"Err", "not found">>
    /\ (/\ Called("load_single_file")
        /\ sc_root \in DOMAIN sc_tree
        /\ ~HasMp3Extension(sc_root)) =>
           Unwrap(sc_result) = <<"Err", "not mp3">>
    /\ Called("scan_path") /\ RootIsDir =>
           \E ord \in LoadOrders, unreadable \in {{}, {ScanRoot}} :
               Unwrap(sc_result) =
                   scan_directory(sc_tree, sc_root, ord, unreadable)
    /\ Called("scan_path") /\ ~RootIsDir =>
           LET one == load_single_file(sc_tree, sc_root) IN
           IF one[1] = "Err" THEN Unwrap(sc_result) = one
           ELSE /\ Unwrap(sc_result) = <<"Ok", <<one[2]>>>>
                /\ Len(Records) = 1
                /\ Records[1].path = sc_root

C22_Witness ==
    /\ Called("scan_path")
    /\ sc_root = Append(ScanRoot, NameBMP3)
    /\ ScanOk
    /\ Len(Records) = 1

C22_WitnessDirectory ==
    /\ Called("scan_path")
    /\ sc_root = LoadDirPath
    /\ RootIsDir
    /\ Unwrap(sc_result) = <<"Ok", <<>>>>

C22_WitnessNotFound ==
    /\ Called("load_single_file")
    /\ sc_root = Append(ScanRoot, NameCTxt)
    /\ sc_root \notin DOMAIN sc_tree
    /\ Unwrap(sc_result) = <<"Err", "not found">>

C22_WitnessNotMp3 ==
    /\ Called("load_single_file")
    /\ sc_root = Append(ScanRoot, NameCTxt)
    /\ sc_root \in DOMAIN sc_tree
    /\ Unwrap(sc_result) = <<"Err", "not mp3">>

C22_WitnessNotDirectory ==
    /\ Called("scan_directory")
    /\ sc_root = Append(ScanRoot, NameDMp3)
    /\ sc_root \in DOMAIN sc_tree
    /\ Unwrap(sc_result) = <<"Err", "not a directory">>

(***************************************************************************)
(* Claims on provenance                                                    *)
(***************************************************************************)
Provenances == {"id3", "filename", "manual", "spotify", "melon"}

\* C23: every record produced by parse_filename, read_tags, a search or
\* fetch_detail of Spotify or Melon, the manual edit, or merge_tags on such
\* records has a source, and it is one of "id3", "filename", "manual",
\* "spotify", "melon".
C23_ProvenanceClosedSet ==
    /\ IsSome(pv_rec) => Unwrap(pv_rec).source \in Provenances
    /\ IsSome(pv_prev) => Unwrap(pv_prev).source \in Provenances

C23_Witness ==
    /\ pv_by = "merge_tags"
    /\ IsSome(pv_prev)
    /\ Unwrap(pv_prev).source = "id3"
    /\ Unwrap(pv_rec).source = "manual"
    /\ Unwrap(pv_rec).artist = Some(<<"p">>)

C23_WitnessEachSource ==
    /\ pv_ops = 3
    /\ pv_by = "melon fetch_detail"
    /\ Unwrap(pv_rec).source = "melon"
    /\ Unwrap(pv_prev).source = "filename"

(***************************************************************************)
(* C24: every background thread of the GUI runs its operation once and     *)
(* sends exactly one message, its success variant or one Error; nothing    *)
(* starts a scan or a search again but the buttons.                        *)
(***************************************************************************)
SentBy(worker) ==
    CASE worker.kind = "scan" -> {"ScanDone"}
      [] worker.kind = "search" -> {"SearchDone"}
      [] worker.kind = "art" -> {"AlbumArtDone"}

FailureOf(worker) ==
    CASE worker.kind = "scan" -> ErrorOf("scan")
      [] worker.kind = "search" -> ErrorOf("search")
      [] worker.kind = "art" -> ErrorOf("album art")

Running(kinds) == {i \in DOMAIN workers : workers[i].kind \in kinds}

RunningNext(kinds) == {i \in DOMAIN workers' : workers'[i].kind \in kinds}

C24_OneMessagePerWorker ==
    [][/\ Len(workers') < Len(workers) =>
            \E i \in DOMAIN workers :
                /\ workers' = RemoveAt(workers, i)
                /\ Len(channel') = Len(channel) + 1
                /\ SubSeq(channel', 1, Len(channel)) = channel
                /\ \/ channel'[Len(channel')].type \in SentBy(workers[i])
                   \/ channel'[Len(channel')] = FailureOf(workers[i])
       /\ Cardinality(RunningNext({"scan", "search"}))
              > Cardinality(Running({"scan", "search"})) =>
            /\ Len(workers') = Len(workers) + 1
            /\ gui_count'.scans + gui_count'.searches
                   = gui_count.scans + gui_count.searches + 1]_vars

\* a search failed: its thread is gone and one Error is on the channel
C24_Witness ==
    /\ gui_count.searches = 1
    /\ Running({"search"}) = {}
    /\ channel = <<ErrorOf("search")>>

\* an album art thread has sent its picture
C24_WitnessArt ==
    /\ channel # <<>>
    /\ channel[Len(channel)].type = "AlbumArtDone"

(***************************************************************************)
(* C25: the picture stored into a search result was downloaded for the     *)
(* record that holds it.                                                   *)
(***************************************************************************)
C25_ArtOfTheRecord ==
    \A i \in DOMAIN search_results :
        IsSome(search_results[i].album_art) =>
            /\ IsSome(search_results[i].album_art_url)
            /\ Unwrap(search_results[i].album_art)
                   = ArtAt(Unwrap(search_results[i].album_art_url))

(***************************************************************************)
(* C26: after several searches, with every thread ended and every message *)
(* processed, the results shown are those of the search started last.      *)
(***************************************************************************)
Drained == workers = <<>> /\ channel = <<>>

WithoutArt(results) ==
    [i \in DOMAIN results |-> [results[i] EXCEPT !.album_art = None]]

C26_LatestSearchWins ==
    (/\ Drained
     /\ gui_count.searches >= 2
     /\ IsSome(gui_latest)
     /\ Unwrap(gui_latest).sent = Some(TRUE)
     /\ search_results # <<>>) =>
        WithoutArt(search_results) = Catalog(Unwrap(gui_latest).query)

(***************************************************************************)
(* C27: is_loading is true while a scan or a search is outstanding, that   *)
(* is, started and its message not yet processed.                          *)
(***************************************************************************)
Waiting ==
    {i \in DOMAIN channel :
        \/ channel[i].type \in {"ScanDone", "SearchDone"}
        \/ channel[i] \in {ErrorOf("scan"), ErrorOf("search")}}

Outstanding == Cardinality(Running({"scan", "search"})) + Cardinality(Waiting)

C27_LoadingWhileOutstanding == Outstanding > 0 => is_loading

(***************************************************************************)
(* C29: result_art_textures is as long as search_results.                  *)
(***************************************************************************)
C29_TexturesMatchResults == Len(result_art_textures) = Len(search_results)

\* a picture has been decoded for the first of two results
C29_Witness ==
    /\ Len(search_results) = 2
    /\ IsSome(result_art_textures[1])

\* a selection has cleared the results while their pictures were on the way
C29_WitnessCleared ==
    /\ search_results = <<>>
    /\ gui_count.searches >= 1
    /\ \E i \in DOMAIN channel : channel[i].type = "AlbumArtDone"

(***************************************************************************)
(* C28: two rename_file calls on different source files with the same      *)
(* target: however their checks and renames interleave, at most one        *)
(* succeeds and the contents of both files still exist.                    *)
(***************************************************************************)
Contents(fs) == {fs[p] : p \in DOMAIN fs}

AllDone == \A c \in DOMAIN rn_calls : rn_calls[c].pc = "done"

SameTarget ==
    /\ Len(rn_calls) >= 2
    /\ \A c \in DOMAIN rn_calls :
          /\ IsSome(rn_calls[c].new_path)
          /\ rn_calls[c].new_path = rn_calls[1].new_path

Succeeded == {c \in DOMAIN rn_calls : Unwrap(rn_calls[c].res)[1] = "Ok"}

C28_RenameRaceLosesNothing ==
    (AllDone /\ SameTarget) =>
        /\ Cardinality(Succeeded) <= 1
        /\ \A c \in DOMAIN rn_calls :
              InitialFiles[rn_calls[c].old_path] \in Contents(rn_fs)

(***************************************************************************)
(* C30: a filename build_filename returns has no '/' and no NUL, and the   *)
(* target rename_file computes from it is a direct child of the parent of  *)
(* the source file.                                                        *)
(***************************************************************************)
Built == IsSome(bf_out) /\ IsSome(Unwrap(bf_out))

BuiltName == Unwrap(Unwrap(bf_out))

Chars(s) == {s[i] : i \in DOMAIN s}

C30_TargetStaysInDirectory ==
    Built =>
        /\ "/" \notin Chars(BuiltName)
        /\ NUL \notin Chars(BuiltName)
        /\ \A old_path \in RenamePaths \cup {<<FileX>>, <<>>} :
              join(parent(old_path), BuiltName, target_os)
                  = Append(parent(old_path), BuiltName)

\* a name built from an artist with a '/' and a title with a NUL
C30_Witness ==
    /\ Built
    /\ "/" \in Chars(Unwrap(bf_info.artist))
    /\ NUL \in Chars(Unwrap(bf_info.title))

\* on Windows, a name built from an artist that starts with a backslash
C30_WitnessBackslash ==
    /\ Built
    /\ target_os = "windows"
    /\ Unwrap(bf_info.artist)[1] = "\\"

\* elsewhere a backslash stays in the name and the target is still a child
C30_WitnessBackslashKept ==
    /\ Built
    /\ target_os = "linux"
    /\ "\\" \in Chars(BuiltName)

====
